---- MODULE Spec2Model ----
(***************************************************************************)
(* Backup Boss: the bus-factor analysis.                                   *)
(*                                                                         *)
(* The model covers the POST handler of /api/v1/analysis/bus-factor        *)
(* (snapshot queries, runbookTraining map, per-category scoring loop,      *)
(* busFactor, INSERT INTO bus_factor_analysis), the GET handler of the     *)
(* same route, and the database statements of the other handlers that      *)
(* change what the analysis reads (runbooks, tasks, knowledge fragments).  *)
(*                                                                         *)
(* Strings built from template literals are tuples of their parts, so      *)
(* `${cat}: ${rb.title}` is <<cat, ": ", title>>.  A coverage value        *)
(* covered / total is the exact fraction in lowest terms, [num, den].      *)
(***************************************************************************)
EXTENDS Integers, Sequences, FiniteSets, TLC

VARIABLES
    runbooksTbl,      \* rows of runbooks for the organization, in query order
    usersTbl,         \* rows of users: id -> [org_id, role, competencies]
    tasksTbl,         \* rows of tasks: [runbook_id, assignee_id, status]
    fragmentsTbl,     \* knowledge_fragments JOIN voice_memos: [category, user_id]
    analysisTbl,      \* rows of bus_factor_analysis, oldest first
    ops,              \* number of database changes made so far
    pc,               \* "idle" | "done": position of the POST request
    runbookTraining,  \* POST local: runbook id -> set of user ids
    response,         \* POST response body, NoResponse while idle
    getLog,           \* GET requests answered so far: <<[input, response]>>
    now,              \* the clock, in milliseconds
    request,          \* the request being answered, NoRequest while idle
    effects,          \* statements and e-mails the request issued, in order
    trainingTbl,      \* rows of employee_training: [user_id, category, score]
    sessions          \* requests in flight on connections of their own

vars == <<runbooksTbl, usersTbl, tasksTbl, fragmentsTbl, analysisTbl, ops, pc,
          runbookTraining, response, getLog, now, request, effects,
          trainingTbl, sessions>>

dbVars == <<runbooksTbl, usersTbl, tasksTbl, fragmentsTbl>>

postVars == <<analysisTbl, pc, runbookTraining, response, request, effects>>

----------------------------------------------------------------------------
(* Bounds *)

MaxOps == 1

MaxRunbooks == 6

MaxAnalyses == 1

MaxGetCalls == 2

----------------------------------------------------------------------------
(* Fixed vocabulary *)

Categories == <<"operations", "finance", "client_management", "vendor_relations">>

CategorySet == {Categories[i] : i \in 1..Len(Categories)}

RiskLevels == {"low", "high", "critical"}

UserRoles == {"owner", "admin", "employee"}

CoveredBar == 2

Org == "org1"

OtherOrg == "org2"

Persons == {"u1", "u2", "u3", "x1"}

Titles == {"A", "B", "C", "D", "E", "F"}

NewTitles == {"A", "F"}

Tags == CategorySet \cup {"all"}

NoResponse == [status |-> 0]

----------------------------------------------------------------------------
(* Arithmetic helpers *)

RECURSIVE GCD(_, _)
GCD(a, b) == IF b = 0 THEN a ELSE GCD(b, a % b)

\* covered / total as an exact number
Ratio(n, d) == LET g == GCD(n, d) IN [num |-> n \div g, den |-> d \div g]

ZeroCoverage == [num |-> 0, den |-> 1]

\* a < p/q for a coverage value a
CovLess(a, p, q) == a.num * q < p * a.den

CovLeq(a, b) == a.num * b.den <= b.num * a.den

RECURSIVE SeqToSet(_)
SeqToSet(s) == IF s = <<>> THEN {} ELSE {Head(s)} \cup SeqToSet(Tail(s))

RECURSIVE FilterSeq(_, _)
FilterSeq(s, cat) ==
    IF s = <<>> THEN <<>>
    ELSE IF Head(s).category = cat
         THEN <<Head(s)>> \o FilterSeq(Tail(s), cat)
         ELSE FilterSeq(Tail(s), cat)

\* seq without its i-th element
RemoveAt(seq, i) == SubSeq(seq, 1, i - 1) \o SubSeq(seq, i + 1, Len(seq))

----------------------------------------------------------------------------
(* Snapshot queries of the POST handler *)

\* SELECT id, category, title FROM runbooks WHERE org_id = $1
QueryRunbooks == runbooksTbl

\* runbooks.reduce(...): group by category, keeping the order of the rows
RunbooksByCategory(runbooks) ==
    [cat \in CategorySet |-> FilterSeq(runbooks, cat)]

\* SELECT id, competencies FROM users WHERE org_id = $1 AND role IN (...)
QueryUsers ==
    {[id |-> u, competencies |-> usersTbl[u].competencies] :
        u \in {p \in DOMAIN usersTbl :
                 /\ usersTbl[p].org_id = Org
                 /\ usersTbl[p].role \in UserRoles}}

\* SELECT DISTINCT runbook_id, assignee_id FROM tasks WHERE status = 'completed'
QueryCompletedTasks ==
    {[runbook_id |-> t.runbook_id, assignee_id |-> t.assignee_id] :
        t \in {x \in tasksTbl : x.status = "completed"}}

\* SELECT DISTINCT kf.category, vm.user_id FROM knowledge_fragments kf JOIN ...
QueryKnowledgeFragments == fragmentsTbl

----------------------------------------------------------------------------
(* runbookTraining: who is verified on which runbook *)

\* variant: only the category tag itself matches
CompetencyMatch_exact(comps, category) == category \in comps

\* comps.includes(rb.category) || comps.includes('all')
CompetencyMatch(comps, category) == category \in comps \/ "all" \in comps

\* userCategoryKnowledge: user id -> set of categories
UserCategoryKnowledge(knowledgeFragments) ==
    [u \in {kf.user_id : kf \in knowledgeFragments} |->
        {kf.category : kf \in {k \in knowledgeFragments : k.user_id = u}}]

\* userCategoryKnowledge.get(user.id)?.has(rb.category)
HasKnowledge(uck, userId, category) ==
    userId \in DOMAIN uck /\ category \in uck[userId]

BuildTraining(runbooks, users, completedTasks, knowledgeFragments) ==
    LET rbs == SeqToSet(runbooks)
        ids == {rb.id : rb \in rbs}
        uck == UserCategoryKnowledge(knowledgeFragments)
        CatOf(id) == (CHOOSE rb \in rbs : rb.id = id).category
    IN  [id \in ids |->
            {u.id : u \in {v \in users : CompetencyMatch(v.competencies, CatOf(id))}}
            \cup {t.assignee_id : t \in {x \in completedTasks : x.runbook_id = id}}
            \cup {u.id : u \in {v \in users : HasKnowledge(uck, v.id, CatOf(id))}}]

----------------------------------------------------------------------------
(* The scoring loop *)

\* let globalMinTrained = Infinity
Infinity == [finite |-> FALSE, n |-> 0]

Finite(n) == [finite |-> TRUE, n |-> n]

\* trainedCount < globalMinTrained
LessThanMin(trainedCount, globalMinTrained) ==
    ~globalMinTrained.finite \/ trainedCount < globalMinTrained.n

\* trainedUsers?.size || 0
TrainedCount(training, rb) ==
    IF rb.id \in DOMAIN training THEN Cardinality(training[rb.id]) ELSE 0

\* variant: one trained user is enough to count as covered
IsCovered_one(trainedCount) == trainedCount >= 1

\* variant: only exactly two trained users count as covered
IsCovered_exact(trainedCount) == trainedCount = CoveredBar

\* if (trainedCount >= 2) covered++
IsCovered(trainedCount) == trainedCount >= CoveredBar

\* variant: a gap is pushed up to and including the bar
IsGap_inclusive(trainedCount) == trainedCount <= CoveredBar

\* if (trainedCount < 2) { ... criticalGaps.push(...) }
IsGap(trainedCount) == trainedCount < CoveredBar

\* variant: the gap of an empty category carries other texts
EmptyCategoryGap_reworded(cat) ==
    [function |-> <<cat>>,
     singlePointOfFailure |-> <<"No documented procedures">>,
     recommendedAction |-> "Create runbooks for this function"]

\* the gap pushed for a category without runbooks
EmptyCategoryGap(cat) ==
    [function |-> <<cat>>,
     singlePointOfFailure |-> <<"No documented procedures exist for this function">>,
     recommendedAction |-> "Create emergency runbooks immediately"]

\* spof: Array.from(trainedUsers || [])[0] is the only member when size is 1
SpofText(trainedCount, trainedUsers) ==
    IF trainedCount = 1
    THEN <<"Single employee (", CHOOSE u \in trainedUsers : TRUE,
           ") has verified competency">>
    ELSE <<"No employees have verified competency">>

\* variant: the two recommendations are swapped
RecommendedAction_swapped(trainedCount) ==
    IF trainedCount = 0
    THEN "Cross-train additional employee immediately"
    ELSE "Assign and verify training for at least two employees"

RecommendedAction(trainedCount) ==
    IF trainedCount = 1
    THEN "Cross-train additional employee immediately"
    ELSE "Assign and verify training for at least two employees"

\* the gap pushed for a runbook with fewer than two trained users
RunbookGap(cat, rb, training) ==
    LET trainedCount == TrainedCount(training, rb)
        trainedUsers == IF rb.id \in DOMAIN training THEN training[rb.id] ELSE {}
    IN  [function |-> <<cat, ": ", rb.title>>,
         singlePointOfFailure |-> SpofText(trainedCount, trainedUsers),
         recommendedAction |-> RecommendedAction(trainedCount)]

\* variant: the running value is the count of the runbook seen last
UpdateMin_last(globalMinTrained, trainedCount) == Finite(trainedCount)

\* if (trainedCount < globalMinTrained) globalMinTrained = trainedCount
UpdateMin(globalMinTrained, trainedCount) ==
    IF LessThanMin(trainedCount, globalMinTrained)
    THEN Finite(trainedCount)
    ELSE globalMinTrained

\* variant: a new gap goes to the front of criticalGaps
RunbookStep_prepend(acc, cat, rb, training) ==
    LET trainedCount == TrainedCount(training, rb)
    IN  [covered |-> IF IsCovered(trainedCount) THEN acc.covered + 1 ELSE acc.covered,
         criticalGaps |-> IF IsGap(trainedCount)
                          THEN <<RunbookGap(cat, rb, training)>> \o acc.criticalGaps
                          ELSE acc.criticalGaps,
         globalMinTrained |-> UpdateMin(acc.globalMinTrained, trainedCount)]

\* one iteration of catRunbooks.forEach(rb => ...)
RunbookStep(acc, cat, rb, training) ==
    LET trainedCount == TrainedCount(training, rb)
    IN  [covered |-> IF IsCovered(trainedCount) THEN acc.covered + 1 ELSE acc.covered,
         criticalGaps |-> IF IsGap(trainedCount)
                          THEN Append(acc.criticalGaps, RunbookGap(cat, rb, training))
                          ELSE acc.criticalGaps,
         globalMinTrained |-> UpdateMin(acc.globalMinTrained, trainedCount)]

RECURSIVE RunbookLoop(_, _, _, _)
RunbookLoop(acc, cat, catRunbooks, training) ==
    IF catRunbooks = <<>> THEN acc
    ELSE RunbookLoop(RunbookStep(acc, cat, Head(catRunbooks), training),
                     cat, Tail(catRunbooks), training)

\* variant: both thresholds are inclusive
RiskLevelOf_inclusive(coverage) ==
    IF CovLeq(coverage, [num |-> 1, den |-> 2]) THEN "critical"
    ELSE IF CovLeq(coverage, [num |-> 4, den |-> 5]) THEN "high"
    ELSE "low"

\* riskLevel from coverage: < 0.5 critical, < 0.8 high, otherwise low
RiskLevelOf(coverage) ==
    IF CovLess(coverage, 1, 2) THEN "critical"
    ELSE IF CovLess(coverage, 4, 5) THEN "high"
    ELSE "low"

\* variant: the ratio is taken over one procedure more than there are
CoverageOf_smoothed(covered, total) ==
    IF total > 0 THEN Ratio(covered, total + 1) ELSE ZeroCoverage

\* const coverage = total > 0 ? covered / total : 0
CoverageOf(covered, total) ==
    IF total > 0 THEN Ratio(covered, total) ELSE ZeroCoverage

\* variant: an empty category leaves the running minimum alone
EmptyCategoryStep_keepmin(acc, cat) ==
    [scores |-> [acc.scores EXCEPT
                    ![cat] = [coverage |-> ZeroCoverage, riskLevel |-> "critical"]],
     criticalGaps |-> Append(acc.criticalGaps, EmptyCategoryGap(cat)),
     globalMinTrained |-> acc.globalMinTrained]

\* if (total === 0) { ...; globalMinTrained = 0; return; }
EmptyCategoryStep(acc, cat) ==
    [scores |-> [acc.scores EXCEPT
                    ![cat] = [coverage |-> ZeroCoverage, riskLevel |-> "critical"]],
     criticalGaps |-> Append(acc.criticalGaps, EmptyCategoryGap(cat)),
     globalMinTrained |-> Finite(0)]

\* one iteration of categories.forEach(cat => ...)
CategoryStep(acc, cat, runbooksByCategory, training) ==
    LET catRunbooks == runbooksByCategory[cat]
        total == Len(catRunbooks)
    IN  IF total = 0 THEN EmptyCategoryStep(acc, cat)
        ELSE LET inner == RunbookLoop([covered |-> 0,
                                       criticalGaps |-> acc.criticalGaps,
                                       globalMinTrained |-> acc.globalMinTrained],
                                      cat, catRunbooks, training)
                 coverage == CoverageOf(inner.covered, total)
             IN  [scores |-> [acc.scores EXCEPT
                                 ![cat] = [coverage |-> coverage,
                                           riskLevel |-> RiskLevelOf(coverage)]],
                  criticalGaps |-> inner.criticalGaps,
                  globalMinTrained |-> inner.globalMinTrained]

RECURSIVE CategoryLoop(_, _, _, _)
CategoryLoop(acc, cats, runbooksByCategory, training) ==
    IF cats = <<>> THEN acc
    ELSE CategoryLoop(CategoryStep(acc, Head(cats), runbooksByCategory, training),
                      Tail(cats), runbooksByCategory, training)

\* scores as declared before the loop
InitialScores ==
    [cat \in CategorySet |-> [coverage |-> ZeroCoverage, riskLevel |-> "critical"]]

\* variant: the value is capped "for practical purposes"
BusFactorOf_capped(globalMinTrained) ==
    IF ~globalMinTrained.finite \/ globalMinTrained.n = 0
    THEN 0
    ELSE IF globalMinTrained.n > 2 THEN 2 ELSE globalMinTrained.n

\* busFactor from globalMinTrained
BusFactorOf(globalMinTrained) ==
    IF ~globalMinTrained.finite \/ globalMinTrained.n = 0
    THEN 0
    ELSE globalMinTrained.n

\* scores, criticalGaps and busFactor of one snapshot
ComputeBusFactor(runbooks, training) ==
    LET acc == CategoryLoop([scores |-> InitialScores,
                             criticalGaps |-> <<>>,
                             globalMinTrained |-> Infinity],
                            Categories, RunbooksByCategory(runbooks), training)
    IN  [scores |-> acc.scores,
         criticalGaps |-> acc.criticalGaps,
         busFactor |-> BusFactorOf(acc.globalMinTrained)]

----------------------------------------------------------------------------
(* Database contents the system starts from *)

Rb(id, category, title) == [id |-> id, category |-> category, title |-> title]

Task(runbookId, assigneeId, status) ==
    [runbook_id |-> runbookId, assignee_id |-> assigneeId, status |-> status]

Done(runbookId, assignees) == {Task(runbookId, u, "completed") : u \in assignees}

Frag(category, userId) == [category |-> category, user_id |-> userId]

\* no runbook at all
DbEmpty == [runbooks |-> <<>>, tasks |-> {}, fragments |-> {}]

\* four operations runbooks with 3, 1, 2 and 0 completed assignees
DbOperations ==
    [runbooks |-> <<Rb(1, "operations", "A"), Rb(2, "operations", "B"),
                    Rb(3, "operations", "C"), Rb(4, "operations", "D")>>,
     tasks |-> Done(1, {"u1", "u2", "u3"}) \cup Done(2, {"u1"})
               \cup Done(3, {"u1", "u2"})
               \cup {Task(4, "u3", "pending_acceptance")},
     fragments |-> {}]

\* one finance runbook everybody has completed, nothing else
DbFinance ==
    [runbooks |-> <<Rb(1, "finance", "A")>>,
     tasks |-> Done(1, Persons),
     fragments |-> {}]

\* every category has runbooks, each completed by exactly two people
DbStaffed ==
    [runbooks |-> <<Rb(1, "operations", "A"), Rb(2, "finance", "A"),
                    Rb(3, "client_management", "A"), Rb(4, "vendor_relations", "A"),
                    Rb(5, "operations", "B")>>,
     tasks |-> Done(1, {"u1", "u2"}) \cup Done(2, {"u2", "u3"})
               \cup Done(3, {"u1", "u3"}) \cup Done(4, {"u1", "u2"})
               \cup Done(5, {"u2", "u3"})
               \cup {Task(2, "u1", "pending_acceptance")},
     fragments |-> {}]

\* five finance runbooks, four of them completed by two people
DbFiveFinance ==
    [runbooks |-> <<Rb(1, "finance", "A"), Rb(2, "finance", "B"),
                    Rb(3, "finance", "C"), Rb(4, "finance", "D"),
                    Rb(5, "finance", "E")>>,
     tasks |-> Done(1, {"u1", "u2"}) \cup Done(2, {"u1", "u2"})
               \cup Done(3, {"u1", "u3"}) \cup Done(4, {"u2", "u3"})
               \cup {Task(5, "u1", "pending_acceptance")},
     fragments |-> {}]

\* categories interleaved, a repeated title, fragments, a task of a removed runbook
DbMixed ==
    [runbooks |-> <<Rb(1, "finance", "A"), Rb(2, "operations", "A"),
                    Rb(3, "finance", "A"), Rb(4, "vendor_relations", "B")>>,
     tasks |-> Done(1, {"u1"}) \cup Done(3, {"u1", "u2"}) \cup Done(2, {"x1"})
               \cup Done(9, {"u3"})
               \cup {Task(1, "u2", "pending_acceptance")},
     fragments |-> {Frag("vendor_relations", "u2"), Frag("vendor_relations", "x1"),
                    Frag("finance", "u3")}]

\* declared competencies of the users
NoComps == [u \in Persons |-> {}]

OneWildcard == [NoComps EXCEPT !["u1"] = {"all"}, !["x1"] = {"operations"}]

AllWildcard == [u \in Persons |-> IF u = "x1" THEN {} ELSE {"all"}]

SomeTags == [NoComps EXCEPT !["u2"] = {"finance", "vendor_relations"},
                            !["u3"] = {"finance"}]

\* the organizations: database contents with the competencies of the users
Organizations ==
    ({DbEmpty, DbFinance, DbFiveFinance} \X {NoComps, SomeTags})
    \cup ({DbOperations} \X {NoComps, OneWildcard})
    \cup ({DbStaffed} \X {NoComps, AllWildcard})
    \cup ({DbMixed} \X {NoComps, OneWildcard, SomeTags})

UsersOf(comps) ==
    [u \in Persons |->
        [org_id |-> IF u = "x1" THEN OtherOrg ELSE Org,
         role |-> IF u = "u1" THEN "owner" ELSE IF u = "u2" THEN "admin" ELSE "employee",
         competencies |-> comps[u]]]

----------------------------------------------------------------------------
(* Requests *)

NoToken ==
    [sig |-> "none", expired |-> FALSE, sub |-> "", orgId |-> "", role |-> "",
     permissions |-> {}]

\* a token signed with the private key, not yet expired
Token(sub, orgId, role, permissions) ==
    [sig |-> "valid", expired |-> FALSE, sub |-> sub, orgId |-> orgId,
     role |-> role, permissions |-> permissions]

OwnerToken == Token("u1", Org, "owner", {"owner"})

ReaderToken == Token("u3", Org, "employee", {"analysis:read"})

\* a token without role claim
WriterToken == Token("u2", Org, "", {"analysis:write"})

OutsiderToken == Token("x1", OtherOrg, "admin", {"admin"})

ExpiredToken == [OwnerToken EXCEPT !.expired = TRUE]

ForgedToken == [OwnerToken EXCEPT !.sig = "forged"]

\* request.headers.get('authorization')
NoHeader == [scheme |-> "none", token |-> NoToken]

BasicHeader == [scheme |-> "Basic", token |-> NoToken]

Bearer(token) == [scheme |-> "Bearer", token |-> token]

AuthHeaders ==
    {NoHeader, BasicHeader}
    \cup {Bearer(t) : t \in {OwnerToken, ReaderToken, WriterToken, OutsiderToken,
                             ExpiredToken, ForgedToken}}

\* z.string().uuid()
IsUuid(s) == s # "not-a-uuid"

\* bodies of the POST: { orgId, recalculate }
PostBodies == [orgId : {Org, "not-a-uuid"}, recalculate : BOOLEAN]

NoRequest == [endpoint |-> "none"]

----------------------------------------------------------------------------
(* The POST handler of /api/v1/analysis/bus-factor *)

\* verify(token, publicKey, { algorithms: ['RS256'] }): "ok" when the payload
\* is returned, otherwise the name of the error thrown; the signature is
\* checked before the expiry
JwtVerify(token) ==
    IF token.sig # "valid" THEN "JsonWebTokenError"
    ELSE IF token.expired THEN "TokenExpiredError"
    ELSE "ok"

\* verifyAuth(request): "ok", or the message or name of the error thrown
VerifyAuth(header) ==
    IF header.scheme # "Bearer" THEN "Missing authorization header"
    ELSE JwtVerify(header.token)

\* catch (error) { ... }
CatchPost(error) ==
    IF error = "ZodError" THEN [status |-> 400, code |-> "VALIDATION_ERROR"]
    ELSE IF error = "Missing authorization header"
    THEN [status |-> 401, code |-> "UNAUTHORIZED"]
    ELSE [status |-> 500, code |-> "INTERNAL_ERROR"]

\* claims.permissions.includes('analysis:write') || ...('admin') || ...('owner')
HasPermission(claims) ==
    claims.permissions \cap {"analysis:write", "admin", "owner"} # {}

\* one statement sent to the database, or one e-mail handed to the mailer
Effect(op, table, orgId, to) == [op |-> op, table |-> table, org |-> orgId, to |-> to]

Select(table, orgId) == Effect("SELECT", table, orgId, {})

\* JSON.stringify(value) as stored in a JSON column, and the value the
\* driver parses back out of the column
JsonStringify(value) == [json |-> value]

JsonParse(text) == text.json

HourMs == 60 * 60 * 1000

\* INTERVAL '24 hours'
DayMs == 24 * HourMs

\* 7 * 24 * 60 * 60 * 1000
WeekMs == 7 * 24 * 60 * 60 * 1000

\* variant: a row that is exactly 24 hours old still counts
RecentAnalyses_inclusive(orgId) ==
    {k \in 1..Len(analysisTbl) :
        /\ analysisTbl[k].org_id = orgId
        /\ analysisTbl[k].calculated_at >= now - DayMs}

\* rows of bus_factor_analysis WHERE org_id = $1
\*   AND calculated_at > NOW() - INTERVAL '24 hours'
RecentAnalyses(orgId) ==
    {k \in 1..Len(analysisTbl) :
        /\ analysisTbl[k].org_id = orgId
        /\ analysisTbl[k].calculated_at > now - DayMs}

\* ORDER BY calculated_at DESC LIMIT 1: any of the newest rows, 0 for no row
LatestRecent(orgId) ==
    IF RecentAnalyses(orgId) = {} THEN {0}
    ELSE {k \in RecentAnalyses(orgId) :
            \A j \in RecentAnalyses(orgId) :
                analysisTbl[j].calculated_at <= analysisTbl[k].calculated_at}

\* Object.values(scores).some(s => s.riskLevel === 'critical')
HasCriticalRisk(scores) == \E cat \in DOMAIN scores : scores[cat].riskLevel = "critical"

\* SELECT email FROM users WHERE org_id = $1 AND role = 'owner'
QueryOwners(orgId) ==
    {u \in DOMAIN usersTbl : usersTbl[u].org_id = orgId /\ usersTbl[u].role = "owner"}

\* variant: the alert goes out for every analysis
AlertEffects_always(orgId, scores) ==
    LET owners == QueryOwners(orgId)
    IN  <<Select("organizations", orgId), Select("users", orgId)>>
        \o (IF owners # {} THEN <<Effect("EMAIL", "resend", orgId, owners)>>
            ELSE <<>>)

\* if (hasCriticalRisk) { organizations query; owners query; send }
AlertEffects(orgId, scores) ==
    IF ~HasCriticalRisk(scores) THEN <<>>
    ELSE LET owners == QueryOwners(orgId)
         IN  <<Select("organizations", orgId), Select("users", orgId)>>
             \o (IF owners # {} THEN <<Effect("EMAIL", "resend", orgId, owners)>>
                 ELSE <<>>)

\* variant: the next calculation is due after 7 days less one millisecond
NextCalculationDue_short(calculatedAt) == calculatedAt + WeekMs - 1

\* new Date(calculatedAt.getTime() + 7 * 24 * 60 * 60 * 1000)
NextCalculationDue(calculatedAt) == calculatedAt + WeekMs

\* variant: the stored analysis is looked up before the answer is given
Rejected_afterLookup(answer) ==
    [response |-> answer, effects |-> <<Select("bus_factor_analysis", Org)>>,
     analysisTbl |-> analysisTbl, runbookTraining |-> <<>>]

\* an answer given before any statement was issued
Rejected(answer) ==
    [response |-> answer, effects |-> <<>>, analysisTbl |-> analysisTbl,
     runbookTraining |-> <<>>]

\* scoring of the rows the four snapshot queries returned, INSERT, alert
Analyse(orgId, lookup, runbooks, users, completedTasks, knowledgeFragments) ==
    LET training == BuildTraining(runbooks, users, completedTasks,
                                  knowledgeFragments)
        result == ComputeBusFactor(runbooks, training)
        analysisId == Len(analysisTbl) + 1
        calculatedAt == now
    IN  [response |-> [status |-> 200,
                       analysisId |-> analysisId,
                       scores |-> result.scores,
                       criticalGaps |-> result.criticalGaps,
                       busFactor |-> result.busFactor],
         effects |-> lookup
                     \o <<Select("runbooks", orgId), Select("users", orgId),
                          Select("tasks", orgId),
                          Select("knowledge_fragments", orgId),
                          Effect("INSERT", "bus_factor_analysis", orgId, {})>>
                     \o AlertEffects(orgId, result.scores),
         analysisTbl |-> Append(analysisTbl,
                                [id |-> analysisId,
                                 org_id |-> orgId,
                                 scores |-> JsonStringify(result.scores),
                                 critical_gaps |-> JsonStringify(result.criticalGaps),
                                 bus_factor |-> result.busFactor,
                                 calculated_at |-> calculatedAt,
                                 next_calculation_due |->
                                     NextCalculationDue(calculatedAt)]),
         runbookTraining |-> training]

\* the recalculation with the four queries answered at once
Recalculate(orgId, lookup) ==
    Analyse(orgId, lookup, QueryRunbooks, QueryUsers, QueryCompletedTasks,
            QueryKnowledgeFragments)

\* the answer built from a stored analysis
StoredAnswer(existing, orgId) ==
    [response |-> [status |-> 200,
                   analysisId |-> analysisTbl[existing].id,
                   scores |-> JsonParse(analysisTbl[existing].scores),
                   criticalGaps |-> JsonParse(analysisTbl[existing].critical_gaps),
                   busFactor |-> analysisTbl[existing].bus_factor],
     effects |-> <<Select("bus_factor_analysis", orgId)>>,
     analysisTbl |-> analysisTbl,
     runbookTraining |-> <<>>]

\* the body of POST: what it answers, issues and stores
HandlePost(header, body, existing) ==
    LET auth == VerifyAuth(header)
        claims == header.token
    IN  IF auth # "ok" THEN Rejected(CatchPost(auth))
        ELSE IF ~IsUuid(body.orgId) THEN Rejected(CatchPost("ZodError"))
        ELSE IF claims.orgId # body.orgId
        THEN Rejected([status |-> 403, code |-> "UNAUTHORIZED"])
        ELSE IF ~HasPermission(claims)
        THEN Rejected([status |-> 403, code |-> "FORBIDDEN"])
        ELSE IF ~body.recalculate /\ existing # 0
        THEN StoredAnswer(existing, body.orgId)
        ELSE Recalculate(body.orgId,
                         IF body.recalculate THEN <<>>
                         ELSE <<Select("bus_factor_analysis", body.orgId)>>)

----------------------------------------------------------------------------

(* State machine *)

Init ==
    /\ \E o \in Organizations :
          /\ runbooksTbl = o[1].runbooks
          /\ tasksTbl = o[1].tasks
          /\ fragmentsTbl = o[1].fragments
          /\ usersTbl = UsersOf(o[2])
    /\ analysisTbl = <<>>
    /\ ops = 0
    /\ pc = "idle"
    /\ runbookTraining = <<>>
    /\ response = NoResponse
    /\ getLog = <<>>
    /\ now = 0
    /\ trainingTbl = {}
    /\ sessions = <<>>
    /\ request = NoRequest
    /\ effects = <<>>

RunbookIds == {runbooksTbl[i].id : i \in 1..Len(runbooksTbl)}

NextRunbookId ==
    IF RunbookIds = {} THEN 1
    ELSE 1 + CHOOSE m \in RunbookIds : \A k \in RunbookIds : k <= m

\* the analysis requests in flight on connections of their own
InFlight ==
    {c \in DOMAIN sessions : sessions[c].state \notin {"idle", "waiting", "locked", "done"}}

\* the changes the model follows: MaxOps, and as many again for every
\* analysis request in flight
OpsCap == MaxOps * (1 + Cardinality(InFlight))

\* runbook assembly: INSERT INTO "Runbook"
CreateRunbook(category, title) ==
    /\ pc = "idle"
    /\ ops < OpsCap
    /\ Len(runbooksTbl) < MaxRunbooks
    /\ runbooksTbl' = Append(runbooksTbl, Rb(NextRunbookId, category, title))
    /\ ops' = ops + 1
    /\ UNCHANGED <<usersTbl, tasksTbl, fragmentsTbl, postVars, getLog, now, trainingTbl>>

\* task delegation: INSERT INTO tasks ... 'pending_acceptance'
AssignTask(runbookId, assigneeId) ==
    /\ pc = "idle"
    /\ ops < OpsCap
    /\ usersTbl[assigneeId].org_id = Org
    /\ \E i \in 1..Len(runbooksTbl) :
          /\ runbooksTbl[i].id = runbookId
          /\ \/ usersTbl[assigneeId].role = "owner"
             \/ usersTbl[assigneeId].role = "admin"
             \/ runbooksTbl[i].category \in usersTbl[assigneeId].competencies
    /\ Task(runbookId, assigneeId, "pending_acceptance") \notin tasksTbl
    /\ tasksTbl' = tasksTbl \cup {Task(runbookId, assigneeId, "pending_acceptance")}
    /\ ops' = ops + 1
    /\ UNCHANGED <<runbooksTbl, usersTbl, fragmentsTbl, postVars, getLog, now, trainingTbl>>

\* task verification: UPDATE tasks SET status = 'completed'
VerifyTask(t) ==
    /\ pc = "idle"
    /\ ops < OpsCap
    /\ t \in tasksTbl
    /\ t.status # "completed"
    /\ usersTbl[t.assignee_id].org_id = Org
    /\ t.runbook_id \in RunbookIds
    /\ tasksTbl' = (tasksTbl \ {t}) \cup {Task(t.runbook_id, t.assignee_id, "completed")}
    /\ ops' = ops + 1
    /\ UNCHANGED <<runbooksTbl, usersTbl, fragmentsTbl, postVars, getLog, now, trainingTbl>>

\* a transcribed voice memo of the organization yields a knowledge fragment
AddFragment(category, userId) ==
    /\ pc = "idle"
    /\ ops < OpsCap
    /\ Frag(category, userId) \notin fragmentsTbl
    /\ fragmentsTbl' = fragmentsTbl \cup {Frag(category, userId)}
    /\ ops' = ops + 1
    /\ UNCHANGED <<runbooksTbl, usersTbl, tasksTbl, postVars, getLog, now, trainingTbl>>

\* POST /api/v1/analysis/bus-factor; existing is the row the 24-hour lookup
\* returns (0: none).  The table holds at most MaxAnalyses rows per day begun
PostBusFactor(header, body, existing) ==
    /\ pc = "idle"
    /\ existing \in (IF body.recalculate THEN {0} ELSE LatestRecent(body.orgId))
    /\ LET out == HandlePost(header, body, existing)
       IN  /\ Len(out.analysisTbl) <= MaxAnalyses * (1 + now \div DayMs)
           /\ analysisTbl' = out.analysisTbl
           /\ runbookTraining' = out.runbookTraining
           /\ response' = out.response
           /\ effects' = out.effects
    /\ request' = [endpoint |-> "bus-factor", header |-> header, input |-> body]
    /\ pc' = "done"
    /\ UNCHANGED <<dbVars, ops, getLog, now, trainingTbl, sessions>>

\* the request is over: its locals are gone
Return ==
    /\ pc = "done"
    /\ pc' = "idle"
    /\ runbookTraining' = <<>>
    /\ response' = NoResponse
    /\ request' = NoRequest
    /\ effects' = <<>>
    /\ UNCHANGED <<dbVars, analysisTbl, ops, getLog, now, trainingTbl, sessions>>

Next ==
    \/ /\ \E category \in CategorySet, title \in NewTitles :
             CreateRunbook(category, title)
       /\ UNCHANGED sessions
    \/ /\ \E runbookId \in RunbookIds, assigneeId \in Persons :
             AssignTask(runbookId, assigneeId)
       /\ UNCHANGED sessions
    \/ /\ \E t \in tasksTbl : VerifyTask(t)
       /\ UNCHANGED sessions
    \/ /\ \E category \in CategorySet, userId \in Persons :
             AddFragment(category, userId)
       /\ UNCHANGED sessions
    \/ PostBusFactor(Bearer(OwnerToken), [orgId |-> Org, recalculate |-> TRUE], 0)
    \/ Return

Spec == Init /\ [][Next]_vars

----------------------------------------------------------------------------
(* GET /api/v1/analysis/bus-factor *)

OrgIdInputs == {"org1", "org2", "not-a-uuid"}

TeamIdInputs == {"none", "team1"}

\* riskLevel = busFactor <= 1 ? "critical" : busFactor <= 2 ? "high" : "medium"
GetRiskLevel(busFactor) ==
    IF busFactor <= 1 THEN "critical" ELSE IF busFactor <= 2 THEN "high" ELSE "medium"

\* Math.floor(Math.random() * 3) + 1
RandomBusFactor == 1..3

\* the three fixed recommendations of the GET answer
GetRecommendations ==
    <<"Document knowledge held by single-person dependencies",
      "Cross-train team members on critical processes",
      "Create runbooks for all high-risk procedures">>

\* the answer is built at the time of the call, which is read off the
\* number of earlier calls; toISOString() gives a string, not a number
GetBusFactor(orgId, teamId, includeContractors) ==
    /\ Len(getLog) < MaxGetCalls
    /\ \/ /\ IsUuid(orgId)
          /\ \E busFactor \in RandomBusFactor :
                getLog' = Append(getLog,
                    [input |-> <<orgId, teamId, includeContractors>>,
                     response |-> [status |-> 200,
                                   orgId |-> orgId,
                                   busFactor |-> busFactor,
                                   riskLevel |-> GetRiskLevel(busFactor),
                                   criticalPersons |-> <<>>,
                                   recommendations |-> GetRecommendations,
                                   calculatedAt |-> <<"ISO", Len(getLog)>>]])
       \/ /\ ~IsUuid(orgId)
          /\ getLog' = Append(getLog,
                    [input |-> <<orgId, teamId, includeContractors>>,
                     response |-> [status |-> 400, code |-> "VALIDATION_ERROR"]])
    /\ UNCHANGED <<dbVars, postVars, ops, now, trainingTbl, sessions>>

InitGet ==
    /\ runbooksTbl = DbEmpty.runbooks
    /\ tasksTbl = DbEmpty.tasks
    /\ fragmentsTbl = DbEmpty.fragments
    /\ usersTbl = UsersOf(NoComps)
    /\ analysisTbl = <<>>
    /\ ops = 0
    /\ pc = "idle"
    /\ runbookTraining = <<>>
    /\ response = NoResponse
    /\ getLog = <<>>
    /\ now = 0
    /\ trainingTbl = {}
    /\ sessions = <<>>
    /\ request = NoRequest
    /\ effects = <<>>

NextGet ==
    \E orgId \in OrgIdInputs, teamId \in TeamIdInputs, includeContractors \in BOOLEAN :
        GetBusFactor(orgId, teamId, includeContractors)

SpecGet == InitGet /\ [][NextGet]_vars

----------------------------------------------------------------------------
(* The POST handler under every request, with a clock *)

MaxHalfDays == 3

\* the clock advances by half a day or by a day
ClockSteps == {DayMs \div 2, DayMs}

\* DbStaffed with one more finance runbook that nobody is trained on
DbStretched ==
    [runbooks |-> Append(DbStaffed.runbooks, Rb(6, "finance", "B")),
     tasks |-> DbStaffed.tasks,
     fragments |-> {}]

PostOrganizations ==
    {<<DbStaffed, NoComps>>, <<DbStretched, NoComps>>, <<DbOperations, NoComps>>,
     <<DbEmpty, NoComps>>, <<DbFiveFinance, SomeTags>>}

\* an organization whose owner has left: the owner row is an admin row
WithoutOwner(users) ==
    [u \in DOMAIN users |->
        IF users[u].role = "owner" THEN [users[u] EXCEPT !.role = "admin"]
        ELSE users[u]]

InitPost ==
    /\ \E o \in PostOrganizations, owned \in BOOLEAN :
          /\ runbooksTbl = o[1].runbooks
          /\ tasksTbl = o[1].tasks
          /\ fragmentsTbl = o[1].fragments
          /\ usersTbl = IF owned THEN UsersOf(o[2]) ELSE WithoutOwner(UsersOf(o[2]))
    /\ analysisTbl = <<>>
    /\ ops = 0
    /\ pc = "idle"
    /\ runbookTraining = <<>>
    /\ response = NoResponse
    /\ getLog = <<>>
    /\ now = 0
    /\ trainingTbl = {}
    /\ sessions = <<>>
    /\ request = NoRequest
    /\ effects = <<>>

Tick(d) ==
    /\ pc = "idle"
    /\ 2 * (now + d) <= MaxHalfDays * DayMs
    /\ now' = now + d
    /\ UNCHANGED <<dbVars, postVars, ops, getLog, trainingTbl, sessions>>

NextPost ==
    \/ \E header \in AuthHeaders, body \in PostBodies,
          existing \in 0..Len(analysisTbl) : PostBusFactor(header, body, existing)
    \/ \E d \in ClockSteps : Tick(d)
    \/ Return

SpecPost == InitPost /\ [][NextPost]_vars

----------------------------------------------------------------------------

(* The POST handler under every row order of the runbooks query, which has  *)
(* no ORDER BY                                                              *)

OrderOrganizations ==
    {<<DbMixed, OneWildcard>>, <<DbStretched, NoComps>>, <<DbOperations, NoComps>>,
     <<DbFinance, NoComps>>}

InitOrder ==
    /\ \E o \in OrderOrganizations :
          /\ runbooksTbl = o[1].runbooks
          /\ tasksTbl = o[1].tasks
          /\ fragmentsTbl = o[1].fragments
          /\ usersTbl = UsersOf(o[2])
    /\ analysisTbl = <<>>
    /\ ops = 0
    /\ pc = "idle"
    /\ runbookTraining = <<>>
    /\ response = NoResponse
    /\ getLog = <<>>
    /\ now = 0
    /\ trainingTbl = {}
    /\ sessions = <<>>
    /\ request = NoRequest
    /\ effects = <<>>

\* the database hands out the same rows with rows i and i + 1 exchanged
SwapRows(i) ==
    /\ pc = "idle"
    /\ i \in 1..(Len(runbooksTbl) - 1)
    /\ runbooksTbl' = [runbooksTbl EXCEPT ![i] = runbooksTbl[i + 1],
                                          ![i + 1] = runbooksTbl[i]]
    /\ UNCHANGED <<usersTbl, tasksTbl, fragmentsTbl, postVars, ops, getLog, now, trainingTbl, sessions>>

NextOrder ==
    \/ \E i \in 1..MaxRunbooks : SwapRows(i)
    \/ PostBusFactor(Bearer(OwnerToken), [orgId |-> Org, recalculate |-> TRUE], 0)
    \/ Return

SpecOrder == InitOrder /\ [][NextOrder]_vars

----------------------------------------------------------------------------

(* GET /api/v1/memos *)

\* rows of "VoiceMemo" with the categories of their fragments, newest first
Memo(id, orgId, createdAt, fragments) ==
    [id |-> id, orgId |-> orgId, s3Key |-> <<"memos/", id>>, duration |-> 30,
     createdAt |-> createdAt, fragments |-> fragments]

VoiceMemos ==
    <<Memo(4, Org, 40, <<>>), Memo(3, OtherOrg, 30, <<"finance">>),
      Memo(2, Org, 20, <<"finance", "operations">>), Memo(1, Org, 10, <<"operations">>)>>

\* the query string: orgId, category, hasTranscription, page, limit
MemoQueries ==
    [orgId : {Org, OtherOrg, "not-a-uuid"}, category : {"none", "finance"},
     hasTranscription : {"none", "true", "false"}, page : {1, 2}, limit : {1, 20}]

\* verifyToken(token): "ok", or the message of the error thrown
VerifyToken(token) ==
    IF JwtVerify(token) = "ok" THEN "ok" ELSE "Invalid or expired token"

\* z.coerce.boolean().optional() applied to the parameter: Boolean(string)
\* is true for every non-empty string
CoerceBoolean(param) == IF param = "none" THEN "undefined" ELSE "true"

\* the WHERE clause built from the query
MemoMatches(memo, query) ==
    /\ memo.orgId = query.orgId
    /\ query.category # "none" =>
          \E k \in 1..Len(memo.fragments) : memo.fragments[k] = query.category
    /\ CoerceBoolean(query.hasTranscription) = "true" => memo.fragments # <<>>

\* LIMIT $n OFFSET $m
Page(rows, page, limit) ==
    LET offset == (page - 1) * limit
        last == IF offset + limit < Len(rows) THEN offset + limit ELSE Len(rows)
    IN  SubSeq(rows, offset + 1, last)

\* one element of memos; the presigned URL is empty when signing fails
MemoResponse(row, s3Up) ==
    [id |-> row.id,
     s3Url |-> IF s3Up THEN <<"presigned", row.s3Key>> ELSE <<>>,
     duration |-> row.duration,
     transcriptionStatus |-> IF row.fragments # <<>> THEN "completed" ELSE "pending",
     fragments |-> row.fragments,
     createdAt |-> row.createdAt]

\* Math.ceil(total / limit)
Pages(total, limit) == (total + limit - 1) \div limit

\* the body of GET: what it answers and issues
HandleMemos(header, query, s3Up) ==
    IF header.scheme # "Bearer"
    THEN [response |-> [status |-> 401, code |-> "UNAUTHORIZED"], effects |-> <<>>]
    ELSE IF VerifyToken(header.token) # "ok"
    THEN [response |-> [status |-> 401, code |-> "TOKEN_INVALID"], effects |-> <<>>]
    ELSE IF ~IsUuid(query.orgId)
    THEN [response |-> [status |-> 400, code |-> "VALIDATION_ERROR"], effects |-> <<>>]
    ELSE IF header.token.orgId # query.orgId
    THEN [response |-> [status |-> 403, code |-> "FORBIDDEN"], effects |-> <<>>]
    ELSE LET matching == SelectSeq(VoiceMemos, LAMBDA m : MemoMatches(m, query))
             total == Len(matching)
             rows == Page(matching, query.page, query.limit)
         IN  [response |->
                 [status |-> 200,
                  memos |-> [k \in 1..Len(rows) |-> MemoResponse(rows[k], s3Up)],
                  pagination |-> [total |-> total, page |-> query.page,
                                  pages |-> Pages(total, query.limit)]],
              effects |-> <<Select("VoiceMemo", query.orgId),
                            Select("VoiceMemo", query.orgId)>>]

GetMemos(header, query, s3Up) ==
    /\ pc = "idle"
    /\ LET out == HandleMemos(header, query, s3Up)
       IN  /\ response' = out.response
           /\ effects' = out.effects
    /\ request' = [endpoint |-> "memos", header |-> header, input |-> query]
    /\ pc' = "done"
    /\ UNCHANGED <<dbVars, analysisTbl, runbookTraining, ops, getLog, now, trainingTbl, sessions>>

----------------------------------------------------------------------------
(* The handlers that verify a bearer token, under every request *)

ApiOrganizations == {<<DbOperations, NoComps>>, <<DbStaffed, NoComps>>}

InitApi ==
    /\ \E o \in ApiOrganizations :
          /\ runbooksTbl = o[1].runbooks
          /\ tasksTbl = o[1].tasks
          /\ fragmentsTbl = o[1].fragments
          /\ usersTbl = UsersOf(o[2])
    /\ analysisTbl = <<>>
    /\ ops = 0
    /\ pc = "idle"
    /\ runbookTraining = <<>>
    /\ response = NoResponse
    /\ getLog = <<>>
    /\ now = 0
    /\ trainingTbl = {}
    /\ sessions = <<>>
    /\ request = NoRequest
    /\ effects = <<>>

NextApi ==
    \/ \E header \in AuthHeaders, body \in PostBodies,
          existing \in 0..Len(analysisTbl) : PostBusFactor(header, body, existing)
    \/ \E header \in AuthHeaders, query \in MemoQueries, s3Up \in BOOLEAN :
          GetMemos(header, query, s3Up)
    \/ Return

SpecApi == InitApi /\ [][NextApi]_vars

----------------------------------------------------------------------------

(* validateStepSequence of the runbook assembly *)

MaxSteps == 3

MaxStepNumber == 4

\* an Error whose message is `${code}: ${text}`
Thrown(code, text) == [code |-> code, text |-> text]

NothingThrown == Thrown("none", "")

Step(n) == [stepNumber |-> n]

\* [...steps].sort((a, b) => a.stepNumber - b.stepNumber)
RECURSIVE SortSteps(_)
SortSteps(steps) ==
    IF steps = <<>> THEN <<>>
    ELSE LET least == CHOOSE i \in 1..Len(steps) :
                          /\ \A j \in 1..Len(steps) :
                                steps[i].stepNumber <= steps[j].stepNumber
                          /\ \A j \in 1..(i - 1) :
                                steps[j].stepNumber # steps[i].stepNumber
         IN  <<steps[least]>> \o SortSteps(RemoveAt(steps, least))

\* variant: the steps are checked in the order they are listed in
ValidateStepSequence_unsorted(steps) ==
    IF \E i \in 1..Len(steps) : steps[i].stepNumber # i
    THEN Thrown("VALIDATION_ERROR", "Steps must be sequential starting from 1")
    ELSE NothingThrown

\* validateStepSequence(steps): what it throws; sorted[i] of the code is
\* sorted[i + 1] here, and is compared with i + 1
ValidateStepSequence(steps) ==
    LET sorted == SortSteps(steps)
    IN  IF \E i \in 1..Len(sorted) : sorted[i].stepNumber # i
        THEN Thrown("VALIDATION_ERROR", "Steps must be sequential starting from 1")
        ELSE NothingThrown

\* the lists of steps the function is applied to
StepLists ==
    UNION {[1..n -> {Step(k) : k \in 0..MaxStepNumber}] : n \in 0..MaxSteps}

InitSteps ==
    /\ runbooksTbl = DbEmpty.runbooks
    /\ tasksTbl = DbEmpty.tasks
    /\ fragmentsTbl = DbEmpty.fragments
    /\ usersTbl = UsersOf(NoComps)
    /\ analysisTbl = <<>>
    /\ ops = 0
    /\ pc = "idle"
    /\ runbookTraining = <<>>
    /\ response = NoResponse
    /\ getLog = <<>>
    /\ now = 0
    /\ trainingTbl = {}
    /\ sessions = <<>>
    /\ \E steps \in StepLists :
          request = [endpoint |-> "validateStepSequence", input |-> steps]
    /\ effects = <<>>

\* validateStepSequence(aiResult.steps)
CallValidateStepSequence ==
    /\ pc = "idle"
    /\ request.endpoint = "validateStepSequence"
    /\ response' = [status |-> 0, thrown |-> ValidateStepSequence(request.input)]
    /\ pc' = "done"
    /\ UNCHANGED <<dbVars, analysisTbl, runbookTraining, request, effects, ops,
                   getLog, now, trainingTbl, sessions>>

NextSteps == CallValidateStepSequence

SpecSteps == InitSteps /\ [][NextSteps]_vars

----------------------------------------------------------------------------

(* POST /api/v1/runbooks/assemble *)

\* a fragment id that is in nobody's database
GhostFragment == Frag("none", "none")

\* the answer of the completion API: outcome is "ok" when a JSON document
\* came back, "http-error" for a non-2xx answer, "empty" for no content,
\* "malformed" for content that is no JSON
Ai(outcome, title, steps) ==
    [outcome |-> outcome, title |-> title, steps |-> steps,
     requiredMaterials |-> <<>>, safetyWarnings |-> <<>>,
     decisionTree |-> [nodeId |-> "root", question |-> "?"]]

AiOutcomes ==
    {Ai(o, "", <<>>) : o \in {"http-error", "empty", "malformed"}}
    \cup {Ai("ok", "F", steps) : steps \in StepLists}

AssembleBody(orgId, category, title, fragmentIds) ==
    [orgId |-> orgId, category |-> category, title |-> title,
     fragmentIds |-> fragmentIds]

\* a request that passes every check when the database has a fragment
BaseFragment ==
    IF fragmentsTbl = {} THEN GhostFragment ELSE CHOOSE f \in fragmentsTbl : TRUE

BaseAssembleBody == AssembleBody(Org, "finance", "A", <<BaseFragment>>)

BaseAi == Ai("ok", "F", <<Step(2), Step(1)>>)

AssembleBodies ==
    {AssembleBody(orgId, "finance", "A", <<BaseFragment>>) :
        orgId \in {Org, OtherOrg, "not-a-uuid"}}
    \cup {AssembleBody(Org, category, "A", <<BaseFragment>>) :
            category \in CategorySet \cup {"marketing"}}
    \cup {AssembleBody(Org, "finance", "A", fragmentIds) :
            fragmentIds \in {<<>>, <<GhostFragment>>, <<BaseFragment, BaseFragment>>}
                            \cup {<<f, g>> : f, g \in fragmentsTbl}}

\* the requests of the model: one deviation from the base request at a time
AssembleRequests ==
    {[header |-> h, body |-> BaseAssembleBody, ai |-> BaseAi] : h \in AuthHeaders}
    \cup {[header |-> Bearer(OwnerToken), body |-> b, ai |-> BaseAi] :
            b \in AssembleBodies}
    \cup {[header |-> Bearer(OwnerToken), body |-> BaseAssembleBody, ai |-> a] :
            a \in AiOutcomes}

\* the claims schema: sub, orgId (uuid), role (enum), permissions
ClaimsParse(token) == IsUuid(token.orgId) /\ token.role \in UserRoles

\* verifyAuth(request) of the assembly: whatever fails, UNAUTHORIZED is thrown
AssembleVerifyAuth(header) ==
    IF header.scheme # "Bearer" THEN Thrown("UNAUTHORIZED", "")
    ELSE IF JwtVerify(header.token) # "ok" \/ ~ClaimsParse(header.token)
    THEN Thrown("UNAUTHORIZED", "")
    ELSE NothingThrown

\* assembleInputSchema.parse(body)
AssembleInputParse(body) ==
    IF /\ IsUuid(body.orgId)
       /\ body.category \in CategorySet
       /\ Len(body.fragmentIds) >= 1
    THEN NothingThrown
    ELSE Thrown("ZodError", "")

\* checkPermission(user, user.orgId, validatedInput.orgId)
CheckPermission(user, requestedOrgId) ==
    IF user.orgId # requestedOrgId THEN Thrown("FORBIDDEN", "")
    ELSE IF /\ user.role # "owner"
            /\ user.role # "admin"
            /\ "runbook:create" \notin user.permissions
    THEN Thrown("FORBIDDEN", "")
    ELSE NothingThrown

\* fetchFragments: the rows found are compared in number with the ids asked
FetchFragments(fragmentIds) ==
    IF Cardinality(SeqToSet(fragmentIds) \cap fragmentsTbl) # Len(fragmentIds)
    THEN Thrown("FRAGMENTS_NOT_FOUND", "Missing fragments")
    ELSE NothingThrown

\* gptOutputSchema: at least one step, every stepNumber a positive integer
GptOutputParse(ai) ==
    /\ Len(ai.steps) >= 1
    /\ \A i \in 1..Len(ai.steps) : ai.steps[i].stepNumber > 0

\* assembleRunbookWithAI(...)
AssembleRunbookWithAI(ai) ==
    IF ai.outcome = "http-error" THEN Thrown("OPENAI_ERROR", "")
    ELSE IF ai.outcome = "empty" THEN Thrown("OPENAI_ERROR", "Empty response")
    ELSE IF ai.outcome = "malformed" \/ ~GptOutputParse(ai)
    THEN Thrown("VALIDATION_ERROR", "Invalid AI response format")
    ELSE NothingThrown

\* catch (error) { ... } of the assembly
CatchAssemble(thrown) ==
    IF thrown.code = "ZodError" THEN [status |-> 400, code |-> "VALIDATION_ERROR"]
    ELSE IF thrown.code = "UNAUTHORIZED" THEN [status |-> 401, code |-> "UNAUTHORIZED"]
    ELSE IF thrown.code = "FORBIDDEN" THEN [status |-> 403, code |-> "FORBIDDEN"]
    ELSE IF thrown.code = "FRAGMENTS_NOT_FOUND" THEN [status |-> 404, code |-> "NOT_FOUND"]
    ELSE IF thrown.code = "OPENAI_ERROR"
    THEN [status |-> 502, code |-> "AI_PROCESSING_ERROR"]
    ELSE IF thrown.code = "VALIDATION_ERROR"
    THEN [status |-> 400, code |-> "VALIDATION_ERROR"]
    ELSE [status |-> 500, code |-> "INTERNAL_ERROR"]

\* an error answer of the assembly after the given statements
AssembleFailed(thrown, issued) ==
    [response |-> CatchAssemble(thrown), effects |-> issued,
     runbooksTbl |-> runbooksTbl]

\* the body of POST: what it answers, issues and stores
HandleAssemble(header, body, ai) ==
    LET user == header.token
        fragmentsQuery == <<Select("KnowledgeFragment", body.orgId)>>
        bothQueries == fragmentsQuery \o <<Select("Runbook", body.orgId)>>
        runbookId == NextRunbookId
    IN  IF AssembleVerifyAuth(header) # NothingThrown
        THEN AssembleFailed(AssembleVerifyAuth(header), <<>>)
        ELSE IF AssembleInputParse(body) # NothingThrown
        THEN AssembleFailed(AssembleInputParse(body), <<>>)
        ELSE IF CheckPermission(user, body.orgId) # NothingThrown
        THEN AssembleFailed(CheckPermission(user, body.orgId), <<>>)
        ELSE IF FetchFragments(body.fragmentIds) # NothingThrown
        THEN AssembleFailed(FetchFragments(body.fragmentIds), fragmentsQuery)
        ELSE IF AssembleRunbookWithAI(ai) # NothingThrown
        THEN AssembleFailed(AssembleRunbookWithAI(ai), bothQueries)
        ELSE IF ValidateStepSequence(ai.steps) # NothingThrown
        THEN AssembleFailed(ValidateStepSequence(ai.steps), bothQueries)
        ELSE [response |-> [status |-> 201,
                            runbookId |-> runbookId,
                            title |-> ai.title,
                            steps |-> ai.steps,
                            requiredMaterials |-> ai.requiredMaterials,
                            safetyWarnings |-> ai.safetyWarnings,
                            decisionTree |-> ai.decisionTree,
                            sourceFragments |-> body.fragmentIds],
              effects |-> bothQueries
                          \o <<Effect("INSERT", "Runbook", body.orgId, {})>>
                          \o [k \in 1..Len(body.fragmentIds) |->
                                 Effect("INSERT", "RunbookSources", body.orgId, {})]
                          \o <<Effect("PUBLISH", "busfactor:recalculate",
                                      body.orgId, {})>>,
              runbooksTbl |-> Append(runbooksTbl,
                                     Rb(runbookId, body.category, ai.title))]

PostAssemble(header, body, ai) ==
    /\ pc = "idle"
    /\ LET out == HandleAssemble(header, body, ai)
       IN  /\ out.runbooksTbl # runbooksTbl =>
                 ops < MaxOps /\ Len(runbooksTbl) < MaxRunbooks
           /\ runbooksTbl' = out.runbooksTbl
           /\ ops' = IF out.runbooksTbl # runbooksTbl THEN ops + 1 ELSE ops
           /\ response' = out.response
           /\ effects' = out.effects
    /\ request' = [endpoint |-> "assemble", header |-> header, input |-> body]
    /\ pc' = "done"
    /\ UNCHANGED <<usersTbl, tasksTbl, fragmentsTbl, analysisTbl, runbookTraining,
                   getLog, now, trainingTbl, sessions>>

----------------------------------------------------------------------------

(* POST /api/v1/tasks/[id]/verify *)

\* the id of a task row: the fixtures hold one task per runbook and assignee
TaskId(t) == <<t.runbook_id, t.assignee_id>>

\* a task id that names no row
NoTask == <<0, "none">>

\* params.id and the body of the request.
\* verificationToken is "matching" when its SHA-256 is the stored hash,
\* "other" when it is not, "short" when it has fewer than 32 characters;
\* deadlinePassed tells whether the deadline of the row lies before now;
\* moderation is what the image moderation answers for a photo; fault names
\* the statement at which the database fails, "none" for no failure
VerifyInput(pathId, taskId, verificationToken, deadlinePassed, method, moderation, witnessId, fault) ==
    [pathId |-> pathId, taskId |-> taskId,
     verificationToken |-> verificationToken, deadlinePassed |-> deadlinePassed,
     method |-> method, moderation |-> moderation, witnessId |-> witnessId,
     fault |-> fault]

BaseVerifyInput(id) ==
    VerifyInput(id, id, "matching", FALSE, "signature", "clean", "none", "none")

\* the requests of the model: one deviation from the base request at a time
VerifyInputs ==
    UNION {
        {BaseVerifyInput(id), [BaseVerifyInput(id) EXCEPT !.pathId = NoTask],
         [BaseVerifyInput(id) EXCEPT !.deadlinePassed = TRUE]}
        \cup {[BaseVerifyInput(id) EXCEPT !.verificationToken = v] :
                v \in {"other", "short"}}
        \cup {[BaseVerifyInput(id) EXCEPT !.method = "photo", !.moderation = m] :
                m \in {"clean", "flagged", "error"}}
        \cup {[BaseVerifyInput(id) EXCEPT !.method = "witness", !.witnessId = w] :
                w \in Persons \cup {"none"}}
        \cup {[BaseVerifyInput(id) EXCEPT !.fault = f] : f \in {"upsert", "commit"}}
        : id \in {TaskId(t) : t \in tasksTbl} \cup {NoTask}}

\* every header with the base request, every request with the owner's header
VerifyRequests ==
    {[header |-> h, input |-> BaseVerifyInput(id)] :
        h \in AuthHeaders, id \in {TaskId(t) : t \in tasksTbl} \cup {NoTask}}
    \cup {[header |-> Bearer(OwnerToken), input |-> i] : i \in VerifyInputs}

\* verifyAuth(request) of the task verification: the error of jwtVerify
\* is not caught
VerifyTaskAuth(header) ==
    IF header.scheme # "Bearer" THEN Thrown("UNAUTHORIZED", "")
    ELSE IF JwtVerify(header.token) # "ok" THEN Thrown("JOSEError", "")
    ELSE NothingThrown

\* catch (error) { ... } of the task verification
CatchVerifyTask(thrown) ==
    IF thrown.code = "ZodError" THEN [status |-> 400, code |-> "VALIDATION_ERROR"]
    ELSE IF thrown.code = "UNAUTHORIZED" THEN [status |-> 401, code |-> "UNAUTHORIZED"]
    ELSE [status |-> 500, code |-> "INTERNAL_ERROR"]

\* client.query('BEGIN' | 'ROLLBACK' | 'COMMIT')
Statement(op, orgId) == Effect(op, "", orgId, {})

\* the rows of SELECT ... FROM tasks t JOIN runbooks r ... WHERE t.id = $1
\* AND t.org_id = $2: the tasks of the model are those of Org
TaskRows(taskId, orgId) ==
    {t \in tasksTbl : TaskId(t) = taskId /\ orgId = Org /\ t.runbook_id \in RunbookIds}

\* r.category as runbook_category
RunbookCategory(t) ==
    runbooksTbl[CHOOSE i \in 1..Len(runbooksTbl) :
                    runbooksTbl[i].id = t.runbook_id].category

\* a property of an array that is neither an index nor length
ArrayProperty(array, name) == "undefined"

\* list?.includes(x)
OptionalIncludes(list, x) == list # "undefined" /\ x \in SeqToSet(list)

\* criticalGaps?.categories?.includes(...) || criticalGaps?.runbook_ids?.includes(...)
IsCriticalGap(criticalGaps, category, runbookId) ==
    \/ OptionalIncludes(ArrayProperty(criticalGaps, "categories"), category)
    \/ OptionalIncludes(ArrayProperty(criticalGaps, "runbook_ids"), runbookId)

\* SELECT critical_gaps FROM bus_factor_analysis WHERE org_id = $1
\* ORDER BY calculated_at DESC LIMIT 1: any of the newest rows, 0 for no row
LatestAnalysis(orgId) ==
    LET mine == {k \in 1..Len(analysisTbl) : analysisTbl[k].org_id = orgId}
    IN  IF mine = {} THEN {0}
        ELSE {k \in mine : \A j \in mine :
                 analysisTbl[j].calculated_at <= analysisTbl[k].calculated_at}

\* UPDATE bus_factor_analysis SET next_calculation_due = NOW() WHERE org_id = $1
MarkDue(orgId) ==
    [k \in 1..Len(analysisTbl) |->
        IF analysisTbl[k].org_id = orgId
        THEN [analysisTbl[k] EXCEPT !.next_calculation_due = now]
        ELSE analysisTbl[k]]

\* the pending tasks of the assignee other than the verified one, of which
\* the query returns the most urgent one whose deadline is still ahead
NextTaskCandidates(taskId) ==
    {TaskId(n) : n \in {m \in tasksTbl : /\ m.assignee_id = taskId[2]
                                         /\ TaskId(m) # taskId
                                         /\ m.status = "pending"}}

\* INSERT INTO employee_training ... VALUES (..., 1, ...)
\*   ON CONFLICT (user_id, category) DO UPDATE SET score = score + 1
Upsert(table, userId, category) ==
    IF \E r \in table : r.user_id = userId /\ r.category = category
    THEN {IF r.user_id = userId /\ r.category = category
          THEN [r EXCEPT !.score = @ + 1] ELSE r : r \in table}
    ELSE table \cup {[user_id |-> userId, category |-> category, score |-> 1]}

\* UPDATE tasks SET status = 'completed', ... WHERE id = $3
CompleteTask(taskId) ==
    {IF TaskId(t) = taskId THEN [t EXCEPT !.status = "completed"] ELSE t :
        t \in tasksTbl}

\* the three tables as they stand
Tables == [tasksTbl |-> tasksTbl, trainingTbl |-> trainingTbl,
           analysisTbl |-> analysisTbl]

\* variant: what the transaction wrote stays
Rollback_none(written) == written

\* ROLLBACK: what the transaction wrote is undone
Rollback(written) == Tables

\* what a request answers and issues, and the tables it leaves
Outcome(answer, issued, tables) ==
    [response |-> answer, effects |-> issued, tasksTbl |-> tables.tasksTbl,
     trainingTbl |-> tables.trainingTbl, analysisTbl |-> tables.analysisTbl]

\* an answer given before the transaction wrote anything
VerifyRefused(answer, issued) == Outcome(answer, issued, Tables)

\* the part of POST before BEGIN: the answer that ends the request, or
\* status 0 to go on
Admit(header, input) ==
    IF VerifyTaskAuth(header) # NothingThrown
    THEN CatchVerifyTask(VerifyTaskAuth(header))
    ELSE IF input.verificationToken = "short"
    THEN CatchVerifyTask(Thrown("ZodError", ""))
    ELSE IF input.pathId # input.taskId
    THEN [status |-> 400, code |-> "VALIDATION_ERROR"]
    ELSE [status |-> 0, code |-> ""]

\* the statements of a request that ends before BEGIN: the catch block
\* issues ROLLBACK, the return on differing ids issues nothing
AdmitStatements(header, input) ==
    IF VerifyTaskAuth(header) # NothingThrown \/ input.verificationToken = "short"
    THEN <<Statement("ROLLBACK", header.token.orgId)>>
    ELSE <<>>

\* the checks of the completion method: the answer that ends the request,
\* or status 0 to go on
MethodCheck(input, task, orgId) ==
    IF input.method = "photo"
    THEN IF input.moderation = "error"
         THEN [status |-> 422, code |-> "IMAGE_VERIFICATION_FAILED"]
         ELSE IF input.moderation = "flagged"
         THEN [status |-> 400, code |-> "CONTENT_MODERATION_FAILED"]
         ELSE [status |-> 0, code |-> ""]
    ELSE IF input.method = "witness"
    THEN IF input.witnessId = "none"
         THEN [status |-> 400, code |-> "WITNESS_REQUIRED"]
         ELSE IF input.witnessId = task.assignee_id
         THEN [status |-> 400, code |-> "INVALID_WITNESS"]
         ELSE IF usersTbl[input.witnessId].org_id # orgId
         THEN [status |-> 404, code |-> "WITNESS_NOT_FOUND"]
         ELSE IF RunbookCategory(task)
                     \notin usersTbl[input.witnessId].competencies
         THEN [status |-> 403, code |-> "INCOMPETENT_WITNESS"]
         ELSE [status |-> 0, code |-> ""]
    ELSE [status |-> 0, code |-> ""]

\* the witness lookup is issued when the witness is given and is not the
\* assignee
MethodStatements(input, task, orgId) ==
    IF /\ input.method = "witness"
       /\ input.witnessId # "none"
       /\ input.witnessId # task.assignee_id
    THEN <<Select("users", orgId)>>
    ELSE <<>>

\* variant: the deadline of the row is not looked at
Guard_noDeadline(input, task) ==
    IF task.status = "completed"
    THEN [status |-> 409, code |-> "ALREADY_COMPLETED"]
    ELSE IF input.verificationToken # "matching"
    THEN [status |-> 403, code |-> "INVALID_TOKEN"]
    ELSE [status |-> 0, code |-> ""]

\* the checks on the row that was read: the answer that ends the request,
\* or status 0 to go on
Guard(input, task) ==
    IF task.status = "completed"
    THEN [status |-> 409, code |-> "ALREADY_COMPLETED"]
    ELSE IF input.deadlinePassed
    THEN [status |-> 410, code |-> "DEADLINE_EXCEEDED"]
    ELSE IF input.verificationToken # "matching"
    THEN [status |-> 403, code |-> "INVALID_TOKEN"]
    ELSE [status |-> 0, code |-> ""]

\* the part of POST after the task row was read and locked
Complete(header, input, task, latest, nextTask) ==
    LET orgId == header.token.orgId
        rollback == <<Statement("ROLLBACK", orgId)>>
        opened == <<Statement("BEGIN", orgId), Select("tasks", orgId)>>
        checked == opened \o MethodStatements(input, task, orgId)
        due == /\ latest # 0
               /\ IsCriticalGap(JsonParse(analysisTbl[latest].critical_gaps),
                                RunbookCategory(task), task.runbook_id)
        update == <<Effect("UPDATE", "tasks", orgId, {})>>
        upsert == <<Effect("INSERT", "employee_training", orgId, {})>>
        rest == <<Select("bus_factor_analysis", orgId)>>
                \o (IF due THEN <<Effect("UPDATE", "bus_factor_analysis", orgId, {})>>
                    ELSE <<>>)
                \o <<Select("tasks", orgId), Statement("COMMIT", orgId)>>
        updated == [Tables EXCEPT !.tasksTbl = CompleteTask(input.taskId)]
        written == [updated EXCEPT
                       !.trainingTbl = Upsert(trainingTbl, task.assignee_id,
                                              RunbookCategory(task)),
                       !.analysisTbl = IF due THEN MarkDue(orgId) ELSE analysisTbl]
    IN  IF Guard(input, task).status # 0
        THEN VerifyRefused(Guard(input, task), opened \o rollback)
        ELSE IF MethodCheck(input, task, orgId).status # 0
        THEN VerifyRefused(MethodCheck(input, task, orgId), checked \o rollback)
        ELSE IF input.fault = "upsert"
        THEN Outcome(CatchVerifyTask(Thrown("DatabaseError", "")),
                     checked \o update \o upsert \o rollback, Rollback(updated))
        ELSE IF input.fault = "commit"
        THEN Outcome(CatchVerifyTask(Thrown("DatabaseError", "")),
                     checked \o update \o upsert \o rest \o rollback,
                     Rollback(written))
        ELSE Outcome([status |-> 200,
                      verified |-> TRUE,
                      taskId |-> input.taskId,
                      completedAt |-> <<"ISO", now>>,
                      nextTask |-> nextTask,
                      trainingCredit |-> TRUE],
                     checked \o update \o upsert \o rest, written)

\* finally { client.release() }
Release(out, orgId) ==
    [out EXCEPT !.effects = Append(@, Statement("RELEASE", orgId))]

\* the body of POST: what it answers, issues and stores
HandleVerifyTask(header, input, latest, nextTask) ==
    LET orgId == header.token.orgId
        out == IF Admit(header, input).status # 0
               THEN VerifyRefused(Admit(header, input),
                                  AdmitStatements(header, input))
               ELSE IF TaskRows(input.taskId, orgId) = {}
               THEN VerifyRefused([status |-> 404, code |-> "NOT_FOUND"],
                                  <<Statement("BEGIN", orgId),
                                    Select("tasks", orgId),
                                    Statement("ROLLBACK", orgId)>>)
               ELSE Complete(header, input,
                             CHOOSE t \in TaskRows(input.taskId, orgId) : TRUE,
                             latest, nextTask)
    IN  Release(out, orgId)

PostVerifyTask(header, input, latest, nextTask) ==
    /\ pc = "idle"
    /\ latest \in LatestAnalysis(header.token.orgId)
    /\ nextTask \in {NoTask} \cup NextTaskCandidates(input.taskId)
    /\ LET out == HandleVerifyTask(header, input, latest, nextTask)
       IN  /\ out.response.status # 200 => nextTask = NoTask
           /\ out.tasksTbl # tasksTbl => ops < MaxOps
           /\ tasksTbl' = out.tasksTbl
           /\ trainingTbl' = out.trainingTbl
           /\ analysisTbl' = out.analysisTbl
           /\ ops' = IF out.tasksTbl # tasksTbl THEN ops + 1 ELSE ops
           /\ response' = out.response
           /\ effects' = out.effects
    /\ request' = [endpoint |-> "verify-task", header |-> header, input |-> input]
    /\ pc' = "done"
    /\ UNCHANGED <<runbooksTbl, usersTbl, fragmentsTbl, runbookTraining, getLog, now,
                   sessions>>

----------------------------------------------------------------------------
(* The handlers that verify a bearer token, under failing authentication *)

AuthOrganizations == {<<DbMixed, OneWildcard>>, <<DbStaffed, NoComps>>}

InitAuth ==
    /\ \E o \in AuthOrganizations :
          /\ runbooksTbl = o[1].runbooks
          /\ tasksTbl = o[1].tasks
          /\ fragmentsTbl = o[1].fragments
          /\ usersTbl = UsersOf(o[2])
    /\ analysisTbl = <<>>
    /\ ops = 0
    /\ pc = "idle"
    /\ runbookTraining = <<>>
    /\ response = NoResponse
    /\ getLog = <<>>
    /\ now = 0
    /\ trainingTbl = {}
    /\ sessions = <<>>
    /\ request = NoRequest
    /\ effects = <<>>

NextAuth ==
    \/ \E header \in AuthHeaders, body \in PostBodies,
          existing \in 0..Len(analysisTbl) : PostBusFactor(header, body, existing)
    \/ \E r \in AssembleRequests : PostAssemble(r.header, r.body, r.ai)
    \/ \E r \in VerifyRequests, latest \in 0..Len(analysisTbl),
          nextTask \in {TaskId(t) : t \in tasksTbl} \cup {NoTask} :
          PostVerifyTask(r.header, r.input, latest, nextTask)
    \/ Return

SpecAuth == InitAuth /\ [][NextAuth]_vars

----------------------------------------------------------------------------

(* The task verification, one request at a time, next to the analysis *)

\* two runbooks; open tasks of u2 and u3, a finished one, one whose runbook
\* is gone
DbTasks ==
    [runbooks |-> <<Rb(1, "finance", "A"), Rb(2, "operations", "A")>>,
     tasks |-> Done(1, {"u1"})
               \cup {Task(1, "u2", "pending"), Task(2, "u2", "pending"),
                     Task(2, "u3", "pending_acceptance"), Task(9, "u1", "pending")},
     fragments |-> {}]

VerifyOrganizations == {<<DbTasks, SomeTags>>, <<DbTasks, OneWildcard>>}

InitVerify ==
    /\ \E o \in VerifyOrganizations :
          /\ runbooksTbl = o[1].runbooks
          /\ tasksTbl = o[1].tasks
          /\ fragmentsTbl = o[1].fragments
          /\ usersTbl = UsersOf(o[2])
    /\ analysisTbl = <<>>
    /\ ops = 0
    /\ pc = "idle"
    /\ runbookTraining = <<>>
    /\ response = NoResponse
    /\ getLog = <<>>
    /\ now = 0
    /\ trainingTbl = {}
    /\ sessions = <<>>
    /\ request = NoRequest
    /\ effects = <<>>

NextVerify ==
    \/ PostBusFactor(Bearer(OwnerToken), [orgId |-> Org, recalculate |-> TRUE], 0)
    \/ \E r \in VerifyRequests, latest \in 0..Len(analysisTbl),
          nextTask \in {TaskId(t) : t \in tasksTbl} \cup {NoTask} :
          PostVerifyTask(r.header, r.input, latest, nextTask)
    \/ Return

SpecVerify == InitVerify /\ [][NextVerify]_vars

----------------------------------------------------------------------------

(* The task verification on two connections at once *)

\* the connections of the pool that serve a request
Conns == {1, 2}

\* a connection that has not been handed a request
IdleSession ==
    [state |-> "idle", header |-> NoHeader, input |-> BaseVerifyInput(NoTask),
     task |-> Task(0, "none", "none"), waited |-> FALSE,
     response |-> NoResponse, effects |-> <<>>]

\* the requests of the two connections: the open tasks of u2, by signature
\* or witnessed by u3 or u1, with another token, or with a failing COMMIT
RaceRequests ==
    UNION {
        {BaseVerifyInput(id), [BaseVerifyInput(id) EXCEPT !.verificationToken = "other"],
         [BaseVerifyInput(id) EXCEPT !.pathId = NoTask],
         [BaseVerifyInput(id) EXCEPT !.fault = "commit"]}
        \cup {[BaseVerifyInput(id) EXCEPT !.method = "witness", !.witnessId = w] :
                w \in {"u1", "u3"}}
        : id \in {<<1, "u2">>, <<2, "u2">>}}

\* FOR UPDATE on tasks t JOIN runbooks r locks the row of either table
RowLocks(task) == {<<"tasks", TaskId(task)>>, <<"runbooks", task.runbook_id>>}

\* the row locks held on the connections other than c
HeldByOthers(c) ==
    UNION {RowLocks(sessions[d].task) :
              d \in {e \in Conns \ {c} : sessions[e].state = "locked"}}

\* variant: the rows are read without waiting for their locks
LockFree_always(c, rows) == TRUE

\* the task query returns once no other transaction holds a lock on a row
\* it selects
LockFree(c, rows) == \A t \in rows : RowLocks(t) \cap HeldByOthers(c) = {}

\* the request arrives: the handler runs up to the task query, or answers
OpenSession(c, header, input) ==
    /\ sessions[c].state = "idle"
    /\ LET refused == Release(VerifyRefused(Admit(header, input),
                                            AdmitStatements(header, input)),
                              header.token.orgId)
       IN  sessions' =
             [sessions EXCEPT ![c] =
                IF Admit(header, input).status # 0
                THEN [@ EXCEPT !.state = "done", !.header = header,
                               !.input = input, !.response = refused.response,
                               !.effects = refused.effects]
                ELSE [@ EXCEPT !.state = "waiting", !.header = header,
                               !.input = input]]
    /\ UNCHANGED <<dbVars, postVars, ops, getLog, now, trainingTbl>>

\* the task query returns: no row and the answer is 404, or the row, locked
LockTask(c) ==
    /\ sessions[c].state = "waiting"
    /\ LET orgId == sessions[c].header.token.orgId
           rows == TaskRows(sessions[c].input.taskId, orgId)
           missing == HandleVerifyTask(sessions[c].header, sessions[c].input,
                                       0, NoTask)
       IN  /\ LockFree(c, rows)
           /\ sessions' =
                [sessions EXCEPT ![c] =
                   IF rows = {}
                   THEN [@ EXCEPT !.state = "done", !.response = missing.response,
                                  !.effects = missing.effects]
                   ELSE [@ EXCEPT !.state = "locked",
                                  !.task = CHOOSE t \in rows : TRUE]]
    /\ UNCHANGED <<dbVars, postVars, ops, getLog, now, trainingTbl>>

\* the rest of the handler, on the row that was read: COMMIT or ROLLBACK
\* ends the transaction and gives up its locks; a connection that waits
\* for one of them has waited
FinishSession(c, latest, nextTask) ==
    /\ sessions[c].state = "locked"
    /\ latest \in LatestAnalysis(sessions[c].header.token.orgId)
    /\ nextTask \in {NoTask} \cup NextTaskCandidates(sessions[c].input.taskId)
    /\ LET s == sessions[c]
           out == Release(Complete(s.header, s.input, s.task, latest, nextTask),
                          s.header.token.orgId)
       IN  /\ out.response.status # 200 => nextTask = NoTask
           /\ tasksTbl' = out.tasksTbl
           /\ trainingTbl' = out.trainingTbl
           /\ analysisTbl' = out.analysisTbl
           /\ sessions' =
                [d \in Conns |->
                   IF d = c
                   THEN [s EXCEPT !.state = "done", !.response = out.response,
                                  !.effects = out.effects]
                   ELSE IF /\ sessions[d].state = "waiting"
                           /\ sessions[d].input.taskId = s.input.taskId
                   THEN [sessions[d] EXCEPT !.waited = TRUE]
                   ELSE sessions[d]]
    /\ UNCHANGED <<runbooksTbl, usersTbl, fragmentsTbl, pc, runbookTraining,
                   response, request, effects, ops, getLog, now>>

InitRace ==
    /\ runbooksTbl = DbTasks.runbooks
    /\ tasksTbl = DbTasks.tasks
    /\ fragmentsTbl = DbTasks.fragments
    /\ usersTbl = UsersOf(SomeTags)
    /\ analysisTbl = <<>>
    /\ ops = 0
    /\ pc = "idle"
    /\ runbookTraining = <<>>
    /\ response = NoResponse
    /\ getLog = <<>>
    /\ now = 0
    /\ trainingTbl = {}
    /\ sessions = [c \in Conns |-> IdleSession]
    /\ request = NoRequest
    /\ effects = <<>>

NextRace ==
    \/ \E c \in Conns, input \in RaceRequests :
          OpenSession(c, Bearer(OwnerToken), input)
    \/ \E c \in Conns : LockTask(c)
    \/ \E c \in Conns, latest \in 0..Len(analysisTbl),
          nextTask \in {TaskId(t) : t \in tasksTbl} \cup {NoTask} :
          FinishSession(c, latest, nextTask)

SpecRace == InitRace /\ [][NextRace]_vars

----------------------------------------------------------------------------

(* The POST handler of the analysis statement by statement, each query a    *)
(* statement of its own on the pool, without a transaction                  *)

\* a connection that has not been handed a request
IdlePost ==
    [state |-> "idle", body |-> [orgId |-> Org, recalculate |-> FALSE],
     runbooks |-> <<>>, users |-> {}, completedTasks |-> {},
     knowledgeFragments |-> {}, response |-> NoResponse, inserted |-> 0,
     instants |-> {}]

\* what the scoring gives on the tables as they stand
ScoreNow ==
    LET result == ComputeBusFactor(
                      QueryRunbooks,
                      BuildTraining(QueryRunbooks, QueryUsers, QueryCompletedTasks,
                                    QueryKnowledgeFragments))
    IN  [scores |-> result.scores, criticalGaps |-> result.criticalGaps,
         busFactor |-> result.busFactor]

\* a change of the tables made while analysis requests are in flight ends
\* an instant of each of them: the tables as they stood until the change
Observe ==
    sessions' = [c \in DOMAIN sessions |->
                    IF c \in InFlight
                    THEN [sessions[c] EXCEPT !.instants = @ \cup {ScoreNow}]
                    ELSE sessions[c]]

\* the request of an owner arrives and passes verifyAuth, the schema and
\* the permission checks
StartPost(c, body) ==
    /\ sessions[c].state = "idle"
    /\ HandlePost(Bearer(OwnerToken), body, 0).response.status = 200
    /\ sessions' = [sessions EXCEPT ![c] =
                       [@ EXCEPT !.state = IF body.recalculate THEN "runbooks"
                                           ELSE "lookup",
                                 !.body = body]]
    /\ UNCHANGED <<dbVars, postVars, ops, getLog, now, trainingTbl>>

\* if (!validated.recalculate) { the 24-hour lookup; return the row found }
LookUpRecent(c, existing) ==
    /\ sessions[c].state = "lookup"
    /\ existing \in LatestRecent(sessions[c].body.orgId)
    /\ sessions' = [sessions EXCEPT ![c] =
                       IF existing # 0
                       THEN [@ EXCEPT !.state = "done",
                                      !.response =
                                          StoredAnswer(existing, sessions[c].body.orgId).response]
                       ELSE [@ EXCEPT !.state = "runbooks"]]
    /\ UNCHANGED <<dbVars, postVars, ops, getLog, now, trainingTbl>>

ReadRunbooks(c) ==
    /\ sessions[c].state = "runbooks"
    /\ sessions' = [sessions EXCEPT ![c] =
                       [@ EXCEPT !.state = "users", !.runbooks = QueryRunbooks]]
    /\ UNCHANGED <<dbVars, postVars, ops, getLog, now, trainingTbl>>

ReadUsers(c) ==
    /\ sessions[c].state = "users"
    /\ sessions' = [sessions EXCEPT ![c] =
                       [@ EXCEPT !.state = "tasks", !.users = QueryUsers]]
    /\ UNCHANGED <<dbVars, postVars, ops, getLog, now, trainingTbl>>

ReadCompletedTasks(c) ==
    /\ sessions[c].state = "tasks"
    /\ sessions' = [sessions EXCEPT ![c] =
                       [@ EXCEPT !.state = "fragments",
                                 !.completedTasks = QueryCompletedTasks]]
    /\ UNCHANGED <<dbVars, postVars, ops, getLog, now, trainingTbl>>

ReadKnowledgeFragments(c) ==
    /\ sessions[c].state = "fragments"
    /\ sessions' = [sessions EXCEPT ![c] =
                       [@ EXCEPT !.state = "insert",
                                 !.knowledgeFragments = QueryKnowledgeFragments]]
    /\ UNCHANGED <<dbVars, postVars, ops, getLog, now, trainingTbl>>

\* runbookTraining, the scoring loop and INSERT INTO bus_factor_analysis,
\* on the rows the four queries returned; the tables as they stand at the
\* INSERT are the last instant of the request
InsertAnalysis(c) ==
    /\ sessions[c].state = "insert"
    /\ LET s == sessions[c]
           out == Analyse(s.body.orgId, <<>>, s.runbooks, s.users,
                          s.completedTasks, s.knowledgeFragments)
       IN  /\ analysisTbl' = out.analysisTbl
           /\ sessions' = [sessions EXCEPT ![c] =
                              [@ EXCEPT !.state = "done",
                                        !.response = out.response,
                                        !.inserted = out.response.analysisId,
                                        !.instants = @ \cup {ScoreNow}]]
    /\ UNCHANGED <<dbVars, pc, runbookTraining, response, request, effects, ops,
                   getLog, now, trainingTbl>>

----------------------------------------------------------------------------
(* Two analysis requests of one organization at once *)

InitTwoPosts ==
    /\ \E o \in {<<DbStaffed, NoComps>>, <<DbOperations, NoComps>>} :
          /\ runbooksTbl = o[1].runbooks
          /\ tasksTbl = o[1].tasks
          /\ fragmentsTbl = o[1].fragments
          /\ usersTbl = UsersOf(o[2])
    /\ analysisTbl = <<>>
    /\ ops = 0
    /\ pc = "idle"
    /\ runbookTraining = <<>>
    /\ response = NoResponse
    /\ getLog = <<>>
    /\ now = 0
    /\ trainingTbl = {}
    /\ sessions = [c \in Conns |-> IdlePost]
    /\ request = NoRequest
    /\ effects = <<>>

NextTwoPosts ==
    \/ \E c \in Conns, recalculate \in BOOLEAN :
          StartPost(c, [orgId |-> Org, recalculate |-> recalculate])
    \/ \E c \in Conns, existing \in 0..Len(analysisTbl) : LookUpRecent(c, existing)
    \/ \E c \in Conns : ReadRunbooks(c)
    \/ \E c \in Conns : ReadUsers(c)
    \/ \E c \in Conns : ReadCompletedTasks(c)
    \/ \E c \in Conns : ReadKnowledgeFragments(c)
    \/ \E c \in Conns : InsertAnalysis(c)
    \/ \E d \in ClockSteps : Tick(d)

SpecTwoPosts == InitTwoPosts /\ [][NextTwoPosts]_vars

----------------------------------------------------------------------------
(* One analysis request while the tables change *)

InitSnapshot ==
    /\ runbooksTbl = DbTasks.runbooks
    /\ tasksTbl = DbTasks.tasks
    /\ fragmentsTbl = DbTasks.fragments
    /\ usersTbl = UsersOf(SomeTags)
    /\ analysisTbl = <<>>
    /\ ops = 0
    /\ pc = "idle"
    /\ runbookTraining = <<>>
    /\ response = NoResponse
    /\ getLog = <<>>
    /\ now = 0
    /\ trainingTbl = {}
    /\ sessions = [c \in {1} |-> IdlePost]
    /\ request = NoRequest
    /\ effects = <<>>

NextSnapshot ==
    \/ StartPost(1, [orgId |-> Org, recalculate |-> TRUE])
    \/ ReadRunbooks(1)
    \/ ReadUsers(1)
    \/ ReadCompletedTasks(1)
    \/ ReadKnowledgeFragments(1)
    \/ InsertAnalysis(1)
    \/ /\ \E category \in CategorySet, title \in NewTitles :
             CreateRunbook(category, title)
       /\ Observe
    \/ /\ \E t \in tasksTbl : VerifyTask(t)
       /\ Observe
    \/ /\ \E category \in CategorySet, userId \in Persons :
             AddFragment(category, userId)
       /\ Observe

SpecSnapshot == InitSnapshot /\ [][NextSnapshot]_vars

----------------------------------------------------------------------------

(* Vocabulary of the properties: what the input snapshot of an answered    *)
(* request contains.  The database does not change while pc = "done".      *)

Answered == pc = "done" /\ response.status = 200

RbIdx == 1..Len(runbooksTbl)

\* positions of the procedures of a category
IdxOf(cat) == {i \in RbIdx : runbooksTbl[i].category = cat}

\* the verified-people set of the procedure at position i
VerifiedSet(i) == runbookTraining[runbooksTbl[i].id]

VerifiedCount(i) == Cardinality(VerifiedSet(i))

TotalIn(cat) == Cardinality(IdxOf(cat))

CoveredIn(cat) == Cardinality({i \in IdxOf(cat) : VerifiedCount(i) >= 2})

GapIdx == 1..Len(response.criticalGaps)

\* the label under which criticalGaps names the procedure at position i
LabelOf(i) == <<runbooksTbl[i].category, ": ", runbooksTbl[i].title>>

\* how many entries of criticalGaps carry the label of procedure i
EntriesLabelled(i) ==
    Cardinality({k \in GapIdx : response.criticalGaps[k].function = LabelOf(i)})

\* procedures with fewer than two verified people that share the label of i
UncoveredSharingLabel(i) ==
    {j \in RbIdx : LabelOf(j) = LabelOf(i) /\ VerifiedCount(j) < 2}

AllCategoriesDocumented == \A cat \in CategorySet : IdxOf(cat) # {}

----------------------------------------------------------------------------
C2_EmptyCategoryIsCritical ==
    Answered =>
        \A cat \in CategorySet :
            IdxOf(cat) = {} =>
                /\ response.scores[cat].coverage = ZeroCoverage
                /\ response.scores[cat].riskLevel = "critical"
                /\ Cardinality({k \in GapIdx :
                        response.criticalGaps[k].function = <<cat>>}) = 1
                /\ \A k \in GapIdx :
                      response.criticalGaps[k].function = <<cat>> =>
                        /\ response.criticalGaps[k].singlePointOfFailure =
                             <<"No documented procedures exist for this function">>
                        /\ response.criticalGaps[k].recommendedAction =
                             "Create emergency runbooks immediately"

\* an answer for an organization with a documented and an undocumented category
C2_Witness ==
    /\ Answered
    /\ \E cat \in CategorySet : IdxOf(cat) = {}
    /\ \E cat \in CategorySet : IdxOf(cat) # {}

\* C3: a procedure with two or more verified people has no entry in
\* criticalGaps: the entries carrying its label are exactly those of the
\* other procedures of that label with fewer than two verified people
\* (none at all when no such procedure shares its label).
C3_CoveredProcedureHasNoGap ==
    Answered =>
        \A i \in RbIdx :
            VerifiedCount(i) >= 2 =>
                EntriesLabelled(i) = Cardinality(UncoveredSharingLabel(i))

\* a covered procedure next to an uncovered one of the same category
C3_Witness ==
    /\ Answered
    /\ \E i, j \in RbIdx :
          /\ runbooksTbl[i].category = runbooksTbl[j].category
          /\ VerifiedCount(i) >= 2
          /\ VerifiedCount(j) < 2
          /\ EntriesLabelled(i) = 0
          /\ EntriesLabelled(j) = 1

\* the entry expected for a procedure with fewer than two verified people
ExpectedGap(i) ==
    [function |-> LabelOf(i),
     singlePointOfFailure |->
        IF VerifiedCount(i) = 1
        THEN <<"Single employee (", CHOOSE u \in VerifiedSet(i) : TRUE,
               ") has verified competency">>
        ELSE <<"No employees have verified competency">>,
     recommendedAction |->
        IF VerifiedCount(i) = 1
        THEN "Cross-train additional employee immediately"
        ELSE "Assign and verify training for at least two employees"]

\* C4: a procedure with fewer than two verified people has exactly one
\* entry in criticalGaps, of the one-person variant (naming that person,
\* recommending cross-training) or of the nobody variant (recommending to
\* assign and train): per label and per expected entry there are as many
\* entries as uncovered procedures.
C4_UncoveredProcedureHasOneGap ==
    Answered =>
        \A i \in RbIdx :
            VerifiedCount(i) < 2 =>
                /\ EntriesLabelled(i) = Cardinality(UncoveredSharingLabel(i))
                /\ Cardinality({k \in GapIdx :
                        response.criticalGaps[k] = ExpectedGap(i)})
                   = Cardinality({j \in UncoveredSharingLabel(i) :
                        ExpectedGap(j) = ExpectedGap(i)})

\* both message variants occur in one answer
C4_Witness ==
    /\ Answered
    /\ \E i, j \in RbIdx :
          /\ VerifiedCount(i) = 1
          /\ VerifiedCount(j) = 0
          /\ EntriesLabelled(i) = 1
          /\ EntriesLabelled(j) = 1

----------------------------------------------------------------------------
\* the procedures and the verified sets of the answered snapshot, changed
Restaffed(i, people) ==
    [runbookTraining EXCEPT ![runbooksTbl[i].id] = people]

CoverageEq(a, b) == a.num * b.den = b.num * a.den

\* the scores of every category but the one named are those of the answer
SameScoresExcept(result, cat) ==
    LET scores == result.scores
    IN  \A other \in CategorySet \ {cat} :
            IdxOf(other) # {} =>
                CoverageEq(scores[other].coverage, response.scores[other].coverage)

\* C5: the coverage of a category with procedures is (its procedures with
\* two or more verified people) / (its procedures), a value in [0,1], and
\* removing, re-staffing or adding a procedure of another category leaves
\* it unchanged.
C5_CoverageIsPerCategoryRatio ==
    Answered =>
        /\ \A cat \in CategorySet :
              IdxOf(cat) # {} =>
                 LET c == response.scores[cat].coverage
                 IN  /\ c.den > 0
                     /\ 0 <= c.num /\ c.num <= c.den
                     /\ c.num * TotalIn(cat) = CoveredIn(cat) * c.den
        /\ \A i \in RbIdx :
              /\ SameScoresExcept(
                    ComputeBusFactor(RemoveAt(runbooksTbl, i), runbookTraining),
                    runbooksTbl[i].category)
              /\ \A people \in {{}, {"u1"}, {"u2", "x1"}, Persons} :
                    SameScoresExcept(
                       ComputeBusFactor(runbooksTbl, Restaffed(i, people)),
                       runbooksTbl[i].category)
        /\ \A cat \in CategorySet :
              SameScoresExcept(
                 ComputeBusFactor(Append(runbooksTbl, Rb(0, cat, "F")), runbookTraining),
                 cat)

\* a partly covered category beside another documented category
C5_Witness ==
    /\ Answered
    /\ \E cat, other \in CategorySet :
          /\ cat # other
          /\ IdxOf(other) # {}
          /\ 0 < CoveredIn(cat)
          /\ CoveredIn(cat) < TotalIn(cat)
          /\ response.scores[cat].coverage = Ratio(CoveredIn(cat), TotalIn(cat))

\* C6: riskLevel follows from covered/total by fixed thresholds: critical
\* iff coverage < 0.5, high iff 0.5 <= coverage < 0.8, low iff
\* coverage >= 0.8; a category without procedures has coverage 0.
C6_RiskThresholds ==
    Answered =>
        \A cat \in CategorySet :
            LET covered == CoveredIn(cat)
                total == TotalIn(cat)
                risk == response.scores[cat].riskLevel
            IN  IF total = 0 THEN risk = "critical"
                ELSE /\ risk = "critical" <=> 2 * covered < total
                     /\ risk = "high" <=> (2 * covered >= total /\ 5 * covered < 4 * total)
                     /\ risk = "low" <=> 5 * covered >= 4 * total

\* operations has four procedures with 3, 1, 2 and 0 verified people:
\* coverage is exactly 0.5 and the risk is high
C6_Witness ==
    /\ Answered
    /\ Len(runbooksTbl) >= 4
    /\ \A i \in 1..4 : runbooksTbl[i].category = "operations"
    /\ TotalIn("operations") = 4
    /\ <<VerifiedCount(1), VerifiedCount(2), VerifiedCount(3), VerifiedCount(4)>>
         = <<3, 1, 2, 0>>
    /\ response.scores["operations"] =
         [coverage |-> [num |-> 1, den |-> 2], riskLevel |-> "high"]

\* coverage exactly 0.8 is reached and is low
C6_BoundaryLowReached ==
    /\ Answered
    /\ \E cat \in CategorySet :
          /\ 5 * CoveredIn(cat) = 4 * TotalIn(cat)
          /\ TotalIn(cat) > 0
          /\ response.scores[cat].riskLevel = "low"

----------------------------------------------------------------------------
\* the three evidence sources as the database holds them
DeclaresCategory(p, cat) == cat \in usersTbl[p].competencies

CompletedTaskFor(p, id) ==
    \E t \in tasksTbl :
        t.runbook_id = id /\ t.assignee_id = p /\ t.status = "completed"

ContributedFragment(p, cat) == Frag(cat, p) \in fragmentsTbl

\* the users the analysis reads: of the organization, owner, admin or employee
IsListedUser(p) == usersTbl[p].org_id = Org /\ usersTbl[p].role \in UserRoles

\* C8 as stated: a person is verified on a procedure if and only if the
\* person's competency tags contain its category, or the person completed
\* a task for it, or the person contributed a fragment of its category.
C8_VerifiedIsUnionOfThreeSources ==
    Answered =>
        \A i \in RbIdx, p \in Persons :
            p \in VerifiedSet(i) <=>
                \/ DeclaresCategory(p, runbooksTbl[i].category)
                \/ CompletedTaskFor(p, runbooksTbl[i].id)
                \/ ContributedFragment(p, runbooksTbl[i].category)

\* C8 as amended: a person is verified on a procedure if and only if the
\* person completed a task for it, or the person is a listed user of the
\* organization whose competency tags contain its category or the tag
\* 'all', or who contributed a fragment of its category.
C8_VerifiedIsUnionOfSources ==
    Answered =>
        \A i \in RbIdx, p \in Persons :
            p \in VerifiedSet(i) <=>
                \/ CompletedTaskFor(p, runbooksTbl[i].id)
                \/ /\ IsListedUser(p)
                   /\ \/ DeclaresCategory(p, runbooksTbl[i].category)
                      \/ DeclaresCategory(p, "all")
                      \/ ContributedFragment(p, runbooksTbl[i].category)

\* one procedure on which the three sources each verify a different person
\* only, and a fourth person is verified by the tag 'all' alone
C8_Witness ==
    /\ Answered
    /\ \E i \in RbIdx, p \in Persons :
          LET cat == runbooksTbl[i].category
              id == runbooksTbl[i].id
          IN  /\ p \in VerifiedSet(i)
              /\ DeclaresCategory(p, "all")
              /\ ~DeclaresCategory(p, cat)
              /\ ~CompletedTaskFor(p, id)
              /\ ~ContributedFragment(p, cat)
    /\ \E i \in RbIdx, p \in Persons :
          /\ p \in VerifiedSet(i)
          /\ ~CompletedTaskFor(p, runbooksTbl[i].id)
          /\ ~DeclaresCategory(p, "all")
          /\ ~DeclaresCategory(p, runbooksTbl[i].category)
    /\ \E i \in RbIdx, p \in Persons :
          /\ p \in VerifiedSet(i)
          /\ ~IsListedUser(p)

RiskRank(riskLevel) ==
    IF riskLevel = "critical" THEN 0 ELSE IF riskLevel = "high" THEN 1 ELSE 2

\* the answer the analysis gives when person p is also verified on procedure i
WithVerified(i, p) ==
    ComputeBusFactor(runbooksTbl, Restaffed(i, VerifiedSet(i) \cup {p}))

\* C9: adding a verified person to a procedure never lowers the coverage
\* of any category and never moves a riskLevel away from low.
C9_CoverageIsMonotonic ==
    Answered =>
        \A i \in RbIdx, p \in Persons :
            LET after == WithVerified(i, p).scores
            IN  \A cat \in CategorySet :
                    /\ CovLeq(response.scores[cat].coverage, after[cat].coverage)
                    /\ RiskRank(response.scores[cat].riskLevel)
                          <= RiskRank(after[cat].riskLevel)

\* a procedure with one verified person whose second one raises the
\* coverage of its category and improves its riskLevel
C9_Witness ==
    /\ Answered
    /\ \E i \in RbIdx, p \in Persons :
          LET cat == runbooksTbl[i].category
          IN  /\ VerifiedCount(i) = 1
              /\ p \notin VerifiedSet(i)
              /\ ~CovLeq(WithVerified(i, p).scores[cat].coverage,
                         response.scores[cat].coverage)
              /\ RiskRank(response.scores[cat].riskLevel)
                    < RiskRank(WithVerified(i, p).scores[cat].riskLevel)

\* C10: when a procedure has fewer than two verified people or a category
\* has no procedure, busFactor is at most 1; busFactor >= 2 holds exactly
\* when criticalGaps is empty.
C10_BusFactorIsWorstCase ==
    Answered =>
        /\ (\/ \E i \in RbIdx : VerifiedCount(i) < 2
            \/ ~AllCategoriesDocumented)
              => response.busFactor <= 1
        /\ response.busFactor >= 2 <=> response.criticalGaps = <<>>

\* one finance procedure with four verified people, three empty categories:
\* busFactor is 0 and the only gaps are those of the empty categories
C10_Witness ==
    /\ Answered
    /\ Len(runbooksTbl) = 1
    /\ runbooksTbl[1].category = "finance"
    /\ VerifiedCount(1) >= 4
    /\ response.scores["finance"] =
         [coverage |-> [num |-> 1, den |-> 1], riskLevel |-> "low"]
    /\ Len(response.criticalGaps) = 3
    /\ response.busFactor = 0

----------------------------------------------------------------------------
\* C7: two calls of the bus-factor analysis with identical inputs give the
\* same busFactor (and the same risk).
C7_SameInputSameAnswer ==
    \A i, j \in 1..Len(getLog) :
        getLog[i].input = getLog[j].input =>
            /\ getLog[i].response.status = getLog[j].response.status
            /\ getLog[i].response.status = 200 =>
                  /\ getLog[i].response.busFactor = getLog[j].response.busFactor
                  /\ getLog[i].response.riskLevel = getLog[j].response.riskLevel

----------------------------------------------------------------------------
\* C11: when each of the four categories has at least one procedure and
\* every procedure has exactly two verified people, every coverage is 1,
\* every riskLevel is low, criticalGaps is empty and busFactor is 2.
C11_AllStaffedByTwo ==
    (/\ Answered
     /\ AllCategoriesDocumented
     /\ \A i \in RbIdx : VerifiedCount(i) = 2)
        => /\ \A cat \in CategorySet :
                 /\ response.scores[cat].coverage = [num |-> 1, den |-> 1]
                 /\ response.scores[cat].riskLevel = "low"
           /\ response.criticalGaps = <<>>
           /\ response.busFactor = 2

\* such an organization is analysed, one category holding two procedures
C11_Witness ==
    /\ Answered
    /\ AllCategoriesDocumented
    /\ \A i \in RbIdx : VerifiedCount(i) = 2
    /\ \E cat \in CategorySet : TotalIn(cat) >= 2
    /\ response.busFactor = 2

----------------------------------------------------------------------------
\* position of a category in the fixed order
CatPos(cat) == CHOOSE k \in 1..Len(Categories) : Categories[k] = cat

\* positions of the procedures of a category that have fewer than two
\* verified people, in input order
UncoveredIn(cat) ==
    SelectSeq([k \in RbIdx |-> k],
              LAMBDA i : runbooksTbl[i].category = cat /\ VerifiedCount(i) < 2)

\* the entries expected for one category
ExpectedGapsOf(cat) ==
    IF IdxOf(cat) = {}
    THEN <<[function |-> <<cat>>,
            singlePointOfFailure |->
                <<"No documented procedures exist for this function">>,
            recommendedAction |-> "Create emergency runbooks immediately"]>>
    ELSE LET uncovered == UncoveredIn(cat)
         IN  [k \in 1..Len(uncovered) |-> ExpectedGap(uncovered[k])]

\* C12: criticalGaps holds one entry per procedure with fewer than two
\* verified people and one per category without procedures, and nothing
\* else; the entries are grouped by category in the order operations,
\* finance, client_management, vendor_relations, and inside a category
\* they follow the input order of the procedures.
C12_GapsInCategoryThenInputOrder ==
    Answered =>
        response.criticalGaps =
            ExpectedGapsOf("operations") \o ExpectedGapsOf("finance")
            \o ExpectedGapsOf("client_management")
            \o ExpectedGapsOf("vendor_relations")

\* the grouping reorders the input, two entries of one category keep their
\* input order, and an empty category has its entry
C12_Witness ==
    /\ Answered
    /\ \E i, j \in RbIdx :
          /\ i < j
          /\ VerifiedCount(i) < 2 /\ VerifiedCount(j) < 2
          /\ CatPos(runbooksTbl[j].category) < CatPos(runbooksTbl[i].category)
    /\ \E cat \in CategorySet : Len(UncoveredIn(cat)) >= 2
    /\ \E cat \in CategorySet : IdxOf(cat) = {}
    /\ Len(response.criticalGaps) >= 4

----------------------------------------------------------------------------
\* the keys of the JSON body of an answer (status is the HTTP status)
BodyKeys(r) == DOMAIN r \ {"status"}

\* C13: in every result of the bus-factor analysis the scores map has
\* exactly the four fixed categories as keys, and every riskLevel that is
\* returned is one of low, high, critical.
C13_FourCategoriesThreeLevels ==
    \A k \in 1..Len(getLog) :
        LET r == getLog[k].response
        IN  r.status = 200 =>
                /\ "riskLevel" \in BodyKeys(r) => r.riskLevel \in RiskLevels
                /\ "scores" \in BodyKeys(r)
                /\ DOMAIN r.scores = CategorySet
                /\ \A cat \in CategorySet : r.scores[cat].riskLevel \in RiskLevels

\* C14: every successful answer of the bus-factor analysis endpoint is an
\* object with exactly the keys analysisId, scores, criticalGaps, busFactor.
C14_ExactlyFourKeys ==
    \A k \in 1..Len(getLog) :
        getLog[k].response.status = 200 =>
            BodyKeys(getLog[k].response)
                = {"analysisId", "scores", "criticalGaps", "busFactor"}

----------------------------------------------------------------------------
\* the request at hand is a bus-factor POST that ran the computation
Computed ==
    /\ pc = "done"
    /\ request.endpoint = "bus-factor"
    /\ response.status = 200
    /\ \E k \in 1..Len(effects) : effects[k] = Select("runbooks", request.input.orgId)

\* C15: every bus-factor computation that completes persists exactly one
\* analysis row for the organization; the row carries the computed scores,
\* criticalGaps and busFactor, a calculation timestamp, and a next-due
\* timestamp equal to the calculation timestamp plus exactly 7 days.
C15_OneSnapshotRowDueInSevenDays ==
    /\ \A k \in 1..Len(analysisTbl) :
          analysisTbl[k].next_calculation_due
              = analysisTbl[k].calculated_at + 604800000
    /\ Computed =>
          LET mine == {k \in 1..Len(analysisTbl) :
                          analysisTbl[k].id = response.analysisId}
              inserts == {k \in 1..Len(effects) : effects[k].op = "INSERT"}
          IN  /\ Cardinality(mine) = 1
              /\ Cardinality(inserts) = 1
              /\ \A k \in mine :
                    /\ analysisTbl[k].org_id = request.input.orgId
                    /\ JsonParse(analysisTbl[k].scores) = response.scores
                    /\ JsonParse(analysisTbl[k].critical_gaps) = response.criticalGaps
                    /\ analysisTbl[k].bus_factor = response.busFactor
                    /\ analysisTbl[k].calculated_at = now

\* a computation completes a day and a half after the start, with gaps
C15_Witness ==
    /\ Computed
    /\ now = DayMs + DayMs \div 2
    /\ response.criticalGaps # <<>>
    /\ analysisTbl[Len(analysisTbl)].calculated_at = now
    /\ analysisTbl[Len(analysisTbl)].next_calculation_due = now + WeekMs

----------------------------------------------------------------------------
\* the rows of a table in the order of their ids
RECURSIVE SortedById(_)
SortedById(rows) ==
    IF rows = <<>> THEN <<>>
    ELSE LET least == CHOOSE i \in 1..Len(rows) :
                          \A j \in 1..Len(rows) : rows[i].id <= rows[j].id
         IN  <<rows[least]>> \o SortedById(RemoveAt(rows, least))

\* every order in which the four categories can be processed
CategoryOrders ==
    {[k \in 1..Len(Categories) |-> Categories[f[k]]] :
        f \in {g \in [1..Len(Categories) -> 1..Len(Categories)] :
                 \A a, b \in 1..Len(Categories) : a # b => g[a] # g[b]}}

\* where the running minimum ends when the categories are processed in
\* the given order
FinalMin(cats) ==
    CategoryLoop([scores |-> InitialScores, criticalGaps |-> <<>>,
                  globalMinTrained |-> Infinity],
                 cats, RunbooksByCategory(runbooksTbl), runbookTraining).globalMinTrained

\* C16: the result does not depend on iteration order: whatever the order
\* of the input procedures, scores, busFactor and the set of criticalGaps
\* entries are those obtained from the procedures in id order, and the
\* running minimum ends at the same value whichever order the categories
\* are processed in.
C16_OrderDoesNotMatter ==
    Answered =>
        LET sorted == ComputeBusFactor(SortedById(runbooksTbl), runbookTraining)
            ended == FinalMin(Categories)
        IN  /\ response.scores = sorted.scores
            /\ response.busFactor = sorted.busFactor
            /\ SeqToSet(response.criticalGaps) = SeqToSet(sorted.criticalGaps)
            /\ \A cats \in CategoryOrders : FinalMin(cats) = ended

\* the procedures arrive out of id order, the sequence of gaps differs from
\* the one for id order, and an empty category stands next to a staffed one
C16_Witness ==
    /\ Answered
    /\ runbooksTbl # SortedById(runbooksTbl)
    /\ response.criticalGaps
          # ComputeBusFactor(SortedById(runbooksTbl), runbookTraining).criticalGaps
    /\ \E cat \in CategorySet : IdxOf(cat) = {}
    /\ \E i \in RbIdx : VerifiedCount(i) >= 1

----------------------------------------------------------------------------
\* the request at hand carries a token that verifies, names a well-formed
\* organization id, and the two organizations differ
CrossTenant ==
    /\ pc = "done"
    /\ request.endpoint \in {"memos", "bus-factor"}
    /\ request.header.scheme = "Bearer"
    /\ request.header.token.sig = "valid"
    /\ ~request.header.token.expired
    /\ request.input.orgId \in {Org, OtherOrg}
    /\ request.header.token.orgId # request.input.orgId

C17_MemosReached ==
    /\ CrossTenant
    /\ request.endpoint = "memos"
    /\ request.input.orgId = OtherOrg
    /\ response.status = 403

----------------------------------------------------------------------------
\* positions in effects of the alert e-mail and of the INSERT
EmailIdx == {k \in 1..Len(effects) : effects[k].op = "EMAIL"}

InsertIdx == {k \in 1..Len(effects) : effects[k].op = "INSERT"}

\* the owners of the organization the request names
OwnersOfRequested ==
    {u \in DOMAIN usersTbl :
        usersTbl[u].org_id = request.input.orgId /\ usersTbl[u].role = "owner"}

\* C18: the handler hands the critical-risk alert to the mailer if and only
\* if the scores it has just computed contain a critical category and the
\* organization has an owner; the e-mail comes after the INSERT of the
\* analysis row, and there is none when every category is low or high.
C18_AlertOnlyWhenCritical ==
    (pc = "done" /\ request.endpoint = "bus-factor") =>
        /\ EmailIdx # {} <=>
              /\ Computed
              /\ \E cat \in CategorySet : response.scores[cat].riskLevel = "critical"
              /\ OwnersOfRequested # {}
        /\ Cardinality(EmailIdx) <= 1
        /\ \A e \in EmailIdx :
              /\ \E i \in InsertIdx : i < e
              /\ effects[e].to = OwnersOfRequested
        /\ (/\ response.status = 200
            /\ \A cat \in CategorySet :
                  response.scores[cat].riskLevel \in {"low", "high"})
              => EmailIdx = {}

\* a critical category, an owner, and the e-mail after the INSERT
C18_Witness ==
    /\ Computed
    /\ \E cat \in CategorySet : response.scores[cat].riskLevel = "critical"
    /\ \E e \in EmailIdx : \E i \in InsertIdx : i < e

\* a computation with a high category and no critical one sends nothing
C18_HighOnlyReached ==
    /\ Computed
    /\ \E cat \in CategorySet : response.scores[cat].riskLevel = "high"
    /\ \A cat \in CategorySet : response.scores[cat].riskLevel # "critical"
    /\ EmailIdx = {}

\* a critical category in an organization without owner sends nothing
C18_NoOwnerReached ==
    /\ Computed
    /\ \E cat \in CategorySet : response.scores[cat].riskLevel = "critical"
    /\ OwnersOfRequested = {}
    /\ EmailIdx = {}

\* a stored analysis with a critical category is served without e-mail
C18_StoredReached ==
    /\ pc = "done"
    /\ request.endpoint = "bus-factor"
    /\ response.status = 200
    /\ ~Computed
    /\ \E cat \in CategorySet : response.scores[cat].riskLevel = "critical"

----------------------------------------------------------------------------
\* validateStepSequence has been applied to the list at hand
StepsChecked == pc = "done" /\ request.endpoint = "validateStepSequence"

\* how often the number v occurs among the step numbers of the list
Occurrences(v) ==
    Cardinality({i \in 1..Len(request.input) : request.input[i].stepNumber = v})

\* C20: validateStepSequence accepts a list of n steps if and only if its
\* step numbers are exactly 1..n, each occurring once, in any list order;
\* for a gap, a duplicate or a numbering that does not start at 1 it raises
\* a VALIDATION_ERROR.
C20_StepsAreOneToN ==
    StepsChecked =>
        LET n == Len(request.input)
            exact == \A v \in 1..n : Occurrences(v) = 1
        IN  /\ response.thrown = NothingThrown <=> exact
            /\ ~exact => response.thrown.code = "VALIDATION_ERROR"

\* three steps listed out of order are accepted
C20_Witness ==
    /\ StepsChecked
    /\ Len(request.input) = 3
    /\ request.input[1].stepNumber = 2
    /\ request.input[2].stepNumber = 3
    /\ request.input[3].stepNumber = 1
    /\ response.thrown = NothingThrown

\* a duplicate, a gap and a start at 2 are each refused
C20_DuplicateRefused ==
    /\ StepsChecked
    /\ request.input = <<Step(1), Step(2), Step(2)>>
    /\ response.thrown.code = "VALIDATION_ERROR"

C20_GapRefused ==
    /\ StepsChecked
    /\ request.input = <<Step(3), Step(1)>>
    /\ response.thrown.code = "VALIDATION_ERROR"

C20_LateStartRefused ==
    /\ StepsChecked
    /\ request.input = <<Step(2), Step(3)>>
    /\ response.thrown.code = "VALIDATION_ERROR"

----------------------------------------------------------------------------
\* the request at hand went to a handler that verifies a bearer token, and
\* its Authorization header is missing or malformed, or its token is
\* forged or expired
AuthenticationFails ==
    /\ pc = "done"
    /\ request.endpoint \in {"bus-factor", "assemble", "verify-task"}
    /\ \/ request.header.scheme # "Bearer"
       \/ request.header.token.sig # "valid"
       \/ request.header.token.expired

\* C19: a request that fails authentication is answered with status 401 and
\* an authentication error code, never with 500, and no database write is
\* performed for it.
C19_AuthFailureIs401 ==
    AuthenticationFails =>
        /\ response.status = 401
        /\ response.code \in {"UNAUTHORIZED", "TOKEN_INVALID", "AUTH_FAILED"}
        /\ \A k \in 1..Len(effects) : effects[k].op \notin {"INSERT", "UPDATE", "DELETE"}

----------------------------------------------------------------------------
\* the request names the task by the same id in the path and in the body,
\* comes from the organization of the task, meets its deadline, carries the
\* token whose SHA-256 is stored, and passes the check of its method
MayComplete(req, t) ==
    /\ req.endpoint = "verify-task"
    /\ req.input.pathId = req.input.taskId
    /\ req.input.taskId = TaskId(t)
    /\ req.header.token.orgId = Org
    /\ t.status # "completed"
    /\ ~req.input.deadlinePassed
    /\ req.input.verificationToken = "matching"
    /\ req.input.method = "photo" => req.input.moderation = "clean"
    /\ req.input.method = "witness" =>
          /\ req.input.witnessId \in Persons \ {t.assignee_id}
          /\ usersTbl[req.input.witnessId].org_id = req.header.token.orgId
          /\ RunbookCategory(t) \in usersTbl[req.input.witnessId].competencies

\* C21: the status of a task changes to completed only in a verification
\* request whose path id equals its body taskId, whose caller belongs to the
\* organization of the task, whose task is not yet completed and not past
\* its deadline, whose token hashes to the stored hash and whose method
\* check (photo moderation, witness) passes.
C21_CompletedOnlyWhenAllGuardsHold ==
    [][\A t \in tasksTbl :
          (t.status # "completed" /\ t \notin tasksTbl') => MayComplete(request', t)]_vars

\* a witnessed verification has completed a task
C21_Witness ==
    /\ pc = "done"
    /\ request.endpoint = "verify-task"
    /\ request.input.method = "witness"
    /\ response.status = 200
    /\ \E t \in tasksTbl : TaskId(t) = request.input.taskId /\ t.status = "completed"

----------------------------------------------------------------------------
\* the statements of the request at hand, by what they do
OpsIssued(issued) == [k \in 1..Len(issued) |-> issued[k].op]

\* a begun transaction was ended by ROLLBACK, and the connection was
\* released last
RolledBackAndReleased(issued) ==
    LET o == OpsIssued(issued)
    IN  /\ Len(o) >= 1
        /\ o[Len(o)] = "RELEASE"
        /\ (\E k \in 1..Len(o) : o[k] = "BEGIN") =>
               (Len(o) >= 2 /\ o[Len(o) - 1] = "ROLLBACK")

\* C23: a task-verification request that is answered with anything but
\* success leaves tasks, employee_training and bus_factor_analysis as they
\* were before it; its transaction is rolled back and its connection is
\* released.
C23_FailureLeavesTablesAlone ==
    [][(pc = "idle" /\ pc' = "done" /\ request'.endpoint = "verify-task"
            /\ response'.status # 200) =>
          /\ tasksTbl' = tasksTbl
          /\ trainingTbl' = trainingTbl
          /\ analysisTbl' = analysisTbl
          /\ RolledBackAndReleased(effects')]_vars

\* the database failed after the task row had been updated, and the
\* request was answered 500
C23_Witness ==
    /\ pc = "done"
    /\ request.endpoint = "verify-task"
    /\ response.status = 500
    /\ \E k \in 1..Len(effects) : effects[k].op = "UPDATE" /\ effects[k].table = "tasks"
    /\ \E t \in tasksTbl : TaskId(t) = request.input.taskId /\ t.status # "completed"

----------------------------------------------------------------------------
\* the rows of bus_factor_analysis of the organization
AnalysesOf(orgId) == {k \in 1..Len(analysisTbl) : analysisTbl[k].org_id = orgId}

\* the stored gaps name the category: the entry of a runbook has the
\* function <<category, ": ", title>>, that of an empty category <<category>>
GapNames(criticalGaps, category) ==
    \E k \in 1..Len(criticalGaps) : criticalGaps[k].function[1] = category

\* the category of the runbook of the task the request at hand names
VerifiedCategory ==
    runbooksTbl[CHOOSE i \in 1..Len(runbooksTbl) :
                    runbooksTbl[i].id = request.input.taskId[1]].category

\* C24: after a successful verification, when the latest stored analysis
\* of the organization has a critical gap for the runbook of the task or
\* for its category, every analysis row of the organization has
\* next_calculation_due = now; otherwise next_calculation_due is as stored.
C24_CriticalGapMarksAnalysisDue ==
    (/\ pc = "done"
     /\ request.endpoint = "verify-task"
     /\ response.status = 200
     /\ AnalysesOf(Org) # {}) =>
        \A latest \in LatestAnalysis(Org) :
            IF GapNames(JsonParse(analysisTbl[latest].critical_gaps), VerifiedCategory)
            THEN \A k \in AnalysesOf(Org) : analysisTbl[k].next_calculation_due = now
            ELSE \A k \in AnalysesOf(Org) :
                    analysisTbl[k].next_calculation_due =
                        NextCalculationDue(analysisTbl[k].calculated_at)

----------------------------------------------------------------------------
\* the request of a connection would be verified if it were alone: ids
\* agree, the token matches, the deadline is ahead, the method check passes
\* and the database does not fail
ValidAlone(s) ==
    /\ Admit(s.header, s.input).status = 0
    /\ s.input.verificationToken = "matching"
    /\ ~s.input.deadlinePassed
    /\ s.input.fault = "none"
    /\ s.input.method = "witness" =>
          /\ s.input.witnessId \in Persons \ {s.input.taskId[2]}
          /\ usersTbl[s.input.witnessId].org_id = Org
          /\ \E i \in 1..Len(runbooksTbl) :
                /\ runbooksTbl[i].id = s.input.taskId[1]
                /\ runbooksTbl[i].category \in usersTbl[s.input.witnessId].competencies

\* the number of UPDATE tasks statements a connection issued
TaskUpdates(s) ==
    Cardinality({k \in 1..Len(s.effects) :
                    s.effects[k].op = "UPDATE" /\ s.effects[k].table = "tasks"})

\* the score of the assignee of a task in the category of its runbook
ScoreOf(taskId) ==
    LET cat == runbooksTbl[CHOOSE i \in 1..Len(runbooksTbl) :
                               runbooksTbl[i].id = taskId[1]].category
        rows == {r \in trainingTbl : r.user_id = taskId[2] /\ r.category = cat}
    IN  IF rows = {} THEN 0 ELSE (CHOOSE r \in rows : TRUE).score

\* two connections have answered valid requests for the same task
BothAnswered(c, d) ==
    /\ c # d
    /\ sessions[c].state = "done" /\ sessions[d].state = "done"
    /\ sessions[c].input.taskId = sessions[d].input.taskId
    /\ ValidAlone(sessions[c]) /\ ValidAlone(sessions[d])

\* C22: of two valid verification requests for the same open task that run
\* at the same time one is answered verified and the other 409
\* ALREADY_COMPLETED; the task row is updated once and the training score
\* of the assignee in the category of the runbook rises by exactly 1.
C22_OneOfTwoVerifies ==
    \A c, d \in DOMAIN sessions :
        BothAnswered(c, d) =>
            /\ {sessions[c].response.status, sessions[d].response.status} = {200, 409}
            /\ sessions[c].response.status = 409 =>
                   sessions[c].response.code = "ALREADY_COMPLETED"
            /\ TaskUpdates(sessions[c]) + TaskUpdates(sessions[d]) = 1
            /\ ScoreOf(sessions[c].input.taskId) = 1

\* the second request waited for the lock of the first and was answered 409
C22_Witness ==
    \E c, d \in DOMAIN sessions :
        /\ BothAnswered(c, d)
        /\ sessions[c].response.status = 200
        /\ sessions[d].response.status = 409
        /\ sessions[d].waited

----------------------------------------------------------------------------
\* the stored analyses of the organization that are younger than 24 hours
YoungerThanADay(orgId) ==
    {k \in 1..Len(analysisTbl) :
        /\ analysisTbl[k].org_id = orgId
        /\ now - analysisTbl[k].calculated_at < 24 * 60 * 60 * 1000}

\* the response carries the stored row
Serves(resp, row) ==
    /\ resp.analysisId = row.id
    /\ resp.scores = row.scores.json
    /\ resp.criticalGaps = row.critical_gaps.json
    /\ resp.busFactor = row.bus_factor

\* C25: with recalculate = false and a stored analysis of the organization
\* younger than 24 hours the handler answers with the most recent stored
\* analysis, inserts no row, queries no snapshot and sends no e-mail; with
\* recalculate = true, or without such a stored analysis, it computes a new
\* analysis and persists it.
C25_StoredWithinADayElseComputed ==
    [][(/\ pc = "idle" /\ pc' = "done"
        /\ request'.endpoint = "bus-factor"
        /\ response'.status = 200) =>
          LET orgId == request'.input.orgId
              young == YoungerThanADay(orgId)
          IN  IF ~request'.input.recalculate /\ young # {}
              THEN /\ analysisTbl' = analysisTbl
                   /\ \E k \in young :
                         /\ \A j \in young : analysisTbl[j].calculated_at
                                                <= analysisTbl[k].calculated_at
                         /\ Serves(response', analysisTbl[k])
                   /\ \A e \in 1..Len(effects') :
                         /\ effects'[e].op = "SELECT"
                         /\ effects'[e].table = "bus_factor_analysis"
                   /\ runbookTraining' = <<>>
              ELSE /\ Len(analysisTbl') = Len(analysisTbl) + 1
                   /\ SubSeq(analysisTbl', 1, Len(analysisTbl)) = analysisTbl
                   /\ Serves(response', analysisTbl'[Len(analysisTbl')])
                   /\ analysisTbl'[Len(analysisTbl')].org_id = orgId
                   /\ analysisTbl'[Len(analysisTbl')].calculated_at = now
                   /\ \E e \in 1..Len(effects') : effects'[e].op = "INSERT"
                   /\ \E e \in 1..Len(effects') :
                         effects'[e] = Select("runbooks", orgId)]_vars

\* half a day after a computation the stored analysis is served
C25_Witness ==
    /\ pc = "done"
    /\ request.endpoint = "bus-factor"
    /\ ~request.input.recalculate
    /\ response.status = 200
    /\ effects = <<Select("bus_factor_analysis", request.input.orgId)>>
    /\ \E k \in 1..Len(analysisTbl) :
          /\ Serves(response, analysisTbl[k])
          /\ analysisTbl[k].calculated_at = now - DayMs \div 2

\* a day after a computation a request without recalculate computes anew
C25_StaleReached ==
    /\ pc = "done"
    /\ request.endpoint = "bus-factor"
    /\ ~request.input.recalculate
    /\ response.status = 200
    /\ Len(analysisTbl) = 2
    /\ analysisTbl[1].calculated_at = now - DayMs
    /\ analysisTbl[2].calculated_at = now

----------------------------------------------------------------------------
\* the row a connection inserted
InsertedBy(c) ==
    analysisTbl[CHOOSE k \in 1..Len(analysisTbl) :
                    analysisTbl[k].id = sessions[c].inserted]

\* C26: of the bus-factor requests of one organization that have
\* recalculate = false, however they interleave, no two insert a row less
\* than 24 hours apart.
C26_OneInsertPerDay ==
    \A c, d \in DOMAIN sessions :
        (/\ c # d
         /\ sessions[c].state = "done" /\ sessions[d].state = "done"
         /\ ~sessions[c].body.recalculate /\ ~sessions[d].body.recalculate
         /\ sessions[c].inserted # 0 /\ sessions[d].inserted # 0) =>
            \/ InsertedBy(c).calculated_at >= InsertedBy(d).calculated_at + DayMs
            \/ InsertedBy(d).calculated_at >= InsertedBy(c).calculated_at + DayMs

----------------------------------------------------------------------------
\* C27: the analysis a bus-factor request persisted is the scoring of the
\* tables as they stood at one instant between the arrival of the request
\* and its INSERT, whatever changed the tables between its four queries.
C27_AnalysisOfOneInstant ==
    \A c \in DOMAIN sessions :
        (sessions[c].state = "done" /\ sessions[c].inserted # 0) =>
            [scores |-> JsonParse(InsertedBy(c).scores),
             criticalGaps |-> JsonParse(InsertedBy(c).critical_gaps),
             busFactor |-> InsertedBy(c).bus_factor] \in sessions[c].instants

============================================================================
